---- MODULE Spec2Model ----
(***************************************************************************)
(* EDU-SENSE: the learning-gap detector (gap_detector.py), the             *)
(* recommendation engine (recommendation_engine.py), the reports           *)
(* (utils.py, test_demo.py) and the fleet rollup (app.py).                 *)
(*                                                                         *)
(* A DataFrame is a bag of rows: a function from the distinct rows of the  *)
(* frame to their multiplicity.  The detector reads the order of the rows  *)
(* only through Topic.unique(), which lists the topics in order of first   *)
(* appearance; that order is kept in topic_order.  A column the frame does *)
(* not have is a field its rows do not have.                               *)
(*                                                                         *)
(* Numbers: the code computes in IEEE doubles; the model computes in exact *)
(* rationals [num, den] (den > 0).  A standard deviation is carried by its *)
(* square (the sample variance, ddof = 1) or is NaN for fewer than two     *)
(* values, and every comparison with NaN is false, as in pandas.  On the   *)
(* input sets below every comparison the detector makes has the same       *)
(* outcome in doubles as in rationals; the two part only for subgroups of  *)
(* 5 or more attempts (0.6 - 0.4 < 0.2 in doubles), beyond these bounds.   *)
(***************************************************************************)
EXTENDS Integers, Sequences, FiniteSets, TLC

\* ---------------------------------------------------------------- bounds
MaxAttempts == 6          \* rows of a student's frame
MaxGroup == 6             \* rows of a topic group handed to the classifiers
MaxSessionAttempts == 3   \* rows of a frame in a session of several calls
MaxFindings == 6          \* findings of an analysis handed to the recommendation engine
MaxFleetAttempts == 5     \* rows of the dataset of the fleet rollup
MaxRawRows == 3           \* rows of a raw table handed to transform_data
MaxTimed == 12            \* rows of a frame with timestamps, in the order of the file
MaxDashRows == 4          \* rows of a dataset loaded into the dashboard

\* ------------------------------------------------------- program constants
min_attempts_threshold == 3
RecommendationCap == 5     \* recommendations[:5]

\* ------------------------------------------------------------ input sets
\* Topic strings are sequences of characters.  "Alg" and "alg" are distinct
\* topics; "D A" has a space.  A frame holds the topics of one of TopicSets.
TopicSets == { {<<"A", "l", "g">>, <<"a", "l", "g">>}, {<<"A", "l", "g">>, <<"D", " ", "A">>} }
Topics == UNION TopicSets
Times == {10, 60}         \* Time_Taken values of a student's frame (seconds)
GroupTopic == <<"A", "l", "g">>
GroupTimes == {10, 20, 30}

\* ------------------------------------------------------------- rationals
R(n, d) == [num |-> n, den |-> d]
FromInt(i) == R(i, 1)
RLt(a, b) == a.num * b.den < b.num * a.den
RLe(a, b) == a.num * b.den <= b.num * a.den
REq(a, b) == a.num * b.den = b.num * a.den
RGt(a, b) == RLt(b, a)
RGe(a, b) == RLe(b, a)
RAdd(a, b) == R(a.num * b.den + b.num * a.den, a.den * b.den)
RSub(a, b) == R(a.num * b.den - b.num * a.den, a.den * b.den)
RMul(a, b) == R(a.num * b.num, a.den * b.den)
RAbs(a) == IF a.num < 0 THEN R(-a.num, a.den) ELSE a
RMin(a, b) == IF RLt(b, a) THEN b ELSE a
RMax(a, b) == IF RLt(a, b) THEN b ELSE a

\* ------------------------------------------------------------ DataFrames
RECURSIVE SumOver(_, _)
SumOver(f, S) ==
    IF S = {} THEN 0
    ELSE LET x == CHOOSE y \in S : TRUE IN f[x] + SumOver(f, S \ {x})

EmptyFrame == [r \in {} |-> 0]

\* len(df): the number of rows
Rows(df) == SumOver(df, DOMAIN df)

\* df[mask]: the rows of the set mask, with their multiplicity
Select(df, mask) == [r \in mask \cap DOMAIN df |-> df[r]]

\* df.append(row)
Append1(df, row) ==
    [r \in DOMAIN df \cup {row} |-> IF r \in DOMAIN df THEN df[r] + (IF r = row THEN 1 ELSE 0) ELSE 1]

\* (df['Correct'] == v).sum()
CountCorrect(df, v) == Rows(Select(df, {r \in DOMAIN df : r.Correct = v}))

\* df['Correct'].sum()
SumCorrect(df) == SumOver([r \in DOMAIN df |-> df[r] * r.Correct], DOMAIN df)

SumTime(df) == SumOver([r \in DOMAIN df |-> df[r] * r.Time_Taken], DOMAIN df)
SumSqTime(df) == SumOver([r \in DOMAIN df |-> df[r] * r.Time_Taken * r.Time_Taken], DOMAIN df)

\* df['Time_Taken'].mean(), for a non-empty frame
MeanTime(df) == R(SumTime(df), Rows(df))

\* df['Time_Taken'].std(): NaN below two rows, else the sample variance
NaN == [nan |-> TRUE]
StdTime(df) ==
    LET n == Rows(df) IN
    IF n < 2 THEN NaN
    ELSE [nan |-> FALSE, sq |-> R(n * SumSqTime(df) - SumTime(df) * SumTime(df), n * (n - 1))]

One == [nan |-> FALSE, sq |-> R(1, 1)]

\* std == 0
StdIsZero(std) == ~std.nan /\ std.sq.num = 0

\* x < avg - std
LtAvgMinusStd(x, avg, std) ==
    LET d == RSub(avg, FromInt(x)) IN
    ~std.nan /\ d.num > 0 /\ RLt(std.sq, RMul(d, d))

\* x > avg + std
GtAvgPlusStd(x, avg, std) ==
    LET d == RSub(FromInt(x), avg) IN
    ~std.nan /\ d.num > 0 /\ RGt(RMul(d, d), std.sq)

\* std < mean * 0.5   (mean >= 0)
StdLtHalfMean(std, mean) ==
    LET h == RMul(mean, R(5, 10)) IN
    ~std.nan /\ RLt(std.sq, RMul(h, h))

\* round(x) to the nearest integer, ties to even: what the format
\* specifications .1% , .0% and .1f do to a value that is exact in binary
RoundHalfEven(x) ==
    LET f == x.num \div x.den
        r == 2 * (x.num % x.den)
    IN  IF r < x.den THEN f
        ELSE IF r > x.den THEN f + 1
        ELSE IF f % 2 = 0 THEN f ELSE f + 1

\* ---------------------------------------------------------------- strings
\* str.lower() and str.replace(" ", "_"), character by character
LowerChar(c) ==
    CASE c = "A" -> "a"
      [] c = "D" -> "d"
      [] OTHER -> c
Lower(str) == [i \in DOMAIN str |-> LowerChar(str[i])]
ReplaceSpace(str) == [i \in DOMAIN str |-> IF str[i] = " " THEN "_" ELSE str[i]]

\* A dictionary key is the string prefix + suffix, kept as the pair.
ConceptKey(topic) == <<"concept_gap_", ReplaceSpace(Lower(topic))>>
ConfidenceKey == <<"confidence_gap", <<>> >>
SpeedKey == <<"speed_gap", <<>> >>

\* ------------------------------------------------------------------ dicts
\* A dict is the sequence of its items in insertion order.
EmptyDict == <<>>
HasKey(d, k) == \E i \in DOMAIN d : d[i].key = k
Get(d, k) == d[CHOOSE i \in DOMAIN d : d[i].key = k].value
Keys(d) == {d[i].key : i \in DOMAIN d}
\* d[k] = v: a key already there keeps its place and takes the new value
DictSet(d, k, v) ==
    IF HasKey(d, k)
    THEN [i \in DOMAIN d |-> IF d[i].key = k THEN [key |-> k, value |-> v] ELSE d[i]]
    ELSE Append(d, [key |-> k, value |-> v])
\* {**a, **b}
RECURSIVE Merge(_, _)
Merge(a, b) == IF b = <<>> THEN a ELSE Merge(DictSet(a, Head(b).key, Head(b).value), Tail(b))

\* ------------------------------------------------------------ the detector
VARIABLE self      \* the fields of the LearningGapDetector object

\* LearningGapDetector.__init__
LearningGapDetector ==
    [gaps_detected |-> EmptyDict, min_attempts_threshold |-> min_attempts_threshold]

\* mutant: the High boundary taken with <= instead of <
SeverityHighAtBoundary(accuracy) ==
    IF RLe(accuracy, R(4, 10)) THEN "high"
    ELSE IF RLt(accuracy, R(7, 10)) THEN "medium"
    ELSE "low"

\* LearningGapDetector._severity_from_accuracy
_severity_from_accuracy(accuracy) ==
    IF RLt(accuracy, R(4, 10)) THEN "high"
    ELSE IF RLt(accuracy, R(7, 10)) THEN "medium"
    ELSE "low"

\* max(difficulty_counts, key=difficulty_counts.get): the first of easy,
\* moderate, hard that holds the largest count
MostFrequent(easy, moderate, hard) ==
    IF easy >= moderate /\ easy >= hard THEN "easy"
    ELSE IF moderate >= hard THEN "moderate"
    ELSE "hard"

\* mutant: the hard branch falls through, so a slow mistake is counted as
\* moderate too
DifficultyModerateCountsHard(topic_data, cols) ==
    IF "Time_Taken" \notin cols
    THEN [easy |-> 0, moderate |-> 0, hard |-> 0, most_frequent |-> "unknown"]
    ELSE
    LET avg_time == MeanTime(topic_data)
        std_time == StdTime(topic_data)
        wrong_attempts == Select(topic_data, {r \in DOMAIN topic_data : r.Correct = 0})
        IsEasy(r) == LtAvgMinusStd(r.Time_Taken, avg_time, std_time)
        IsHard(r) == ~IsEasy(r) /\ GtAvgPlusStd(r.Time_Taken, avg_time, std_time)
        easy == Rows(Select(wrong_attempts, {r \in DOMAIN wrong_attempts : IsEasy(r)}))
        hard == Rows(Select(wrong_attempts, {r \in DOMAIN wrong_attempts : IsHard(r)}))
        moderate == Rows(Select(wrong_attempts, {r \in DOMAIN wrong_attempts : ~IsEasy(r)}))
    IN  IF Rows(wrong_attempts) = 0
        THEN [easy |-> 0, moderate |-> 0, hard |-> 0, most_frequent |-> "none"]
        ELSE [easy |-> easy, moderate |-> moderate, hard |-> hard,
              total_mistakes |-> Rows(wrong_attempts),
              most_frequent |-> MostFrequent(easy, moderate, hard)]

\* LearningGapDetector._analyze_mistake_difficulty
_analyze_mistake_difficulty(topic_data, cols) ==
    IF "Time_Taken" \notin cols
    THEN [easy |-> 0, moderate |-> 0, hard |-> 0, most_frequent |-> "unknown"]
    ELSE
    LET avg_time == MeanTime(topic_data)
        std_time == StdTime(topic_data)
        wrong_attempts == Select(topic_data, {r \in DOMAIN topic_data : r.Correct = 0})
        IsEasy(r) == LtAvgMinusStd(r.Time_Taken, avg_time, std_time)
        IsHard(r) == ~IsEasy(r) /\ GtAvgPlusStd(r.Time_Taken, avg_time, std_time)
        easy == Rows(Select(wrong_attempts, {r \in DOMAIN wrong_attempts : IsEasy(r)}))
        hard == Rows(Select(wrong_attempts, {r \in DOMAIN wrong_attempts : IsHard(r)}))
        moderate == Rows(Select(wrong_attempts, {r \in DOMAIN wrong_attempts : ~IsEasy(r) /\ ~IsHard(r)}))
    IN  IF Rows(wrong_attempts) = 0
        THEN [easy |-> 0, moderate |-> 0, hard |-> 0, most_frequent |-> "none"]
        ELSE [easy |-> easy, moderate |-> moderate, hard |-> hard,
              total_mistakes |-> Rows(wrong_attempts),
              most_frequent |-> MostFrequent(easy, moderate, hard)]

\* mutant: a subgroup of one attempt is enough for the progression rules
ClassifySubgroupOfOne(topic, topic_data, cols) ==
    IF Rows(topic_data) < 3 THEN "Unknown"
    ELSE
    LET wrong_attempts == Select(topic_data, {r \in DOMAIN topic_data : r.Correct = 0}) IN
    IF Rows(wrong_attempts) < 1 THEN "Theoretical"
    ELSE IF "Time_Taken" \notin cols THEN "Unknown"
    ELSE
    LET avg_time == MeanTime(topic_data)
        std0 == StdTime(topic_data)
        std_time == IF StdIsZero(std0) THEN One ELSE std0
        IsEasy(r) == LtAvgMinusStd(r.Time_Taken, avg_time, std_time)
        IsHard(r) == GtAvgPlusStd(r.Time_Taken, avg_time, std_time)
        easy_all == Select(topic_data, {r \in DOMAIN topic_data : IsEasy(r)})
        hard_all == Select(topic_data, {r \in DOMAIN topic_data : IsHard(r)})
        easy_accuracy == IF Rows(easy_all) > 0 THEN R(SumCorrect(easy_all), Rows(easy_all)) ELSE R(0, 1)
        hard_accuracy == IF Rows(hard_all) > 0 THEN R(SumCorrect(hard_all), Rows(hard_all)) ELSE R(0, 1)
        difficulty_progression == RSub(easy_accuracy, hard_accuracy)
        high_time_wrong == Rows(Select(wrong_attempts, {r \in DOMAIN wrong_attempts : IsHard(r)}))
        low_time_wrong == Rows(Select(wrong_attempts, {r \in DOMAIN wrong_attempts : IsEasy(r)}))
        high_time_ratio == R(high_time_wrong, Rows(wrong_attempts))
        low_time_ratio == R(low_time_wrong, Rows(wrong_attempts))
        overall_accuracy == R(SumCorrect(topic_data), Rows(topic_data))
    IN  IF /\ Rows(easy_all) > 0 /\ Rows(hard_all) > 0
           /\ RGt(easy_accuracy, R(5, 10)) /\ RLt(hard_accuracy, R(5, 10))
           /\ RGt(difficulty_progression, R(2, 10))
        THEN "Theoretical"
        ELSE IF /\ Rows(easy_all) > 0 /\ Rows(hard_all) > 0
                /\ RLt(RAbs(RSub(easy_accuracy, hard_accuracy)), R(2, 10))
        THEN "Conceptual"
        ELSE IF RGt(high_time_ratio, R(5, 10)) /\ RLt(low_time_ratio, R(2, 10))
        THEN "Conceptual"
        ELSE IF RGt(low_time_ratio, R(4, 10)) /\ RLt(high_time_ratio, R(3, 10))
        THEN "Theoretical"
        ELSE IF RLt(overall_accuracy, R(35, 100)) THEN "Conceptual" ELSE "Theoretical"

\* LearningGapDetector._classify_gap_type
_classify_gap_type(topic, topic_data, cols) ==
    IF Rows(topic_data) < 3 THEN "Unknown"
    ELSE
    LET wrong_attempts == Select(topic_data, {r \in DOMAIN topic_data : r.Correct = 0}) IN
    IF Rows(wrong_attempts) < 1 THEN "Theoretical"
    ELSE IF "Time_Taken" \notin cols THEN "Unknown"
    ELSE
    LET avg_time == MeanTime(topic_data)
        std0 == StdTime(topic_data)
        std_time == IF StdIsZero(std0) THEN One ELSE std0
        IsEasy(r) == LtAvgMinusStd(r.Time_Taken, avg_time, std_time)
        IsHard(r) == GtAvgPlusStd(r.Time_Taken, avg_time, std_time)
        easy_all == Select(topic_data, {r \in DOMAIN topic_data : IsEasy(r)})
        hard_all == Select(topic_data, {r \in DOMAIN topic_data : IsHard(r)})
        easy_accuracy == IF Rows(easy_all) > 0 THEN R(SumCorrect(easy_all), Rows(easy_all)) ELSE R(0, 1)
        hard_accuracy == IF Rows(hard_all) > 0 THEN R(SumCorrect(hard_all), Rows(hard_all)) ELSE R(0, 1)
        difficulty_progression == RSub(easy_accuracy, hard_accuracy)
        high_time_wrong == Rows(Select(wrong_attempts, {r \in DOMAIN wrong_attempts : IsHard(r)}))
        low_time_wrong == Rows(Select(wrong_attempts, {r \in DOMAIN wrong_attempts : IsEasy(r)}))
        high_time_ratio == R(high_time_wrong, Rows(wrong_attempts))
        low_time_ratio == R(low_time_wrong, Rows(wrong_attempts))
        overall_accuracy == R(SumCorrect(topic_data), Rows(topic_data))
    IN  IF /\ Rows(easy_all) > 1 /\ Rows(hard_all) > 1
           /\ RGt(easy_accuracy, R(5, 10)) /\ RLt(hard_accuracy, R(5, 10))
           /\ RGt(difficulty_progression, R(2, 10))
        THEN "Theoretical"
        ELSE IF /\ Rows(easy_all) > 1 /\ Rows(hard_all) > 1
                /\ RLt(RAbs(RSub(easy_accuracy, hard_accuracy)), R(2, 10))
        THEN "Conceptual"
        ELSE IF RGt(high_time_ratio, R(5, 10)) /\ RLt(low_time_ratio, R(2, 10))
        THEN "Conceptual"
        ELSE IF RGt(low_time_ratio, R(4, 10)) /\ RLt(high_time_ratio, R(3, 10))
        THEN "Theoretical"
        ELSE IF RLt(overall_accuracy, R(35, 100)) THEN "Conceptual" ELSE "Theoretical"

\* mutant: the finding carries a trend
ConceptFindingWithTrend(topic, topic_data, cols) ==
    LET topic_attempts == Rows(topic_data)
        topic_accuracy == R(CountCorrect(topic_data, 1), topic_attempts)
    IN  [severity |-> _severity_from_accuracy(topic_accuracy),
         confidence |-> RSub(R(1, 1), topic_accuracy),
         affected_questions |-> topic_attempts,
         description |-> [text |-> "Struggling with", topic |-> topic,
                          permille |-> RoundHalfEven(RMul(R(1000, 1), topic_accuracy))],
         difficulty_mistakes |-> _analyze_mistake_difficulty(topic_data, cols),
         gap_type |-> _classify_gap_type(topic, topic_data, cols),
         trend |-> "declining"]

\* mutant: the finding counts the wrong attempts of the topic, not all of them
ConceptFindingCountsWrong(topic, topic_data, cols) ==
    LET topic_attempts == Rows(topic_data)
        topic_accuracy == R(CountCorrect(topic_data, 1), topic_attempts)
    IN  [severity |-> _severity_from_accuracy(topic_accuracy),
         confidence |-> RSub(R(1, 1), topic_accuracy),
         affected_questions |-> CountCorrect(topic_data, 0),
         description |-> [text |-> "Struggling with", topic |-> topic,
                          permille |-> RoundHalfEven(RMul(R(1000, 1), topic_accuracy))],
         difficulty_mistakes |-> _analyze_mistake_difficulty(topic_data, cols),
         gap_type |-> _classify_gap_type(topic, topic_data, cols)]

\* the finding _detect_concept_gaps builds for one topic
ConceptFinding(topic, topic_data, cols) ==
    LET topic_attempts == Rows(topic_data)
        topic_accuracy == R(CountCorrect(topic_data, 1), topic_attempts)
    IN  [severity |-> _severity_from_accuracy(topic_accuracy),
         confidence |-> RSub(R(1, 1), topic_accuracy),
         affected_questions |-> topic_attempts,
         description |-> [text |-> "Struggling with", topic |-> topic,
                          permille |-> RoundHalfEven(RMul(R(1000, 1), topic_accuracy))],
         difficulty_mistakes |-> _analyze_mistake_difficulty(topic_data, cols),
         gap_type |-> _classify_gap_type(topic, topic_data, cols)]

\* the loop of _detect_concept_gaps over Topic.unique(), from position i
RECURSIVE ConceptLoop(_, _, _, _, _)
ConceptLoop(df, cols, order, i, gaps) ==
    IF i > Len(order) THEN gaps
    ELSE
    LET topic == order[i]
        topic_data == Select(df, {r \in DOMAIN df : r.Topic = topic})
        topic_attempts == Rows(topic_data)
        topic_accuracy == R(CountCorrect(topic_data, 1), topic_attempts)
    IN  IF topic_attempts < self.min_attempts_threshold
        THEN ConceptLoop(df, cols, order, i + 1, gaps)
        ELSE IF RLt(topic_accuracy, R(6, 10))
        THEN ConceptLoop(df, cols, order, i + 1,
                         DictSet(gaps, ConceptKey(topic), ConceptFinding(topic, topic_data, cols)))
        ELSE ConceptLoop(df, cols, order, i + 1, gaps)

\* LearningGapDetector._detect_concept_gaps
_detect_concept_gaps(df, cols, order) ==
    IF "Topic" \notin cols THEN EmptyDict
    ELSE ConceptLoop(df, cols, order, 1, EmptyDict)

\* mutant: the finding is emitted from an error rate of 0.5 on (>= for >)
ConfidenceGapsFromHalf(df) ==
    LET avg_time == MeanTime(df)
        limit == RMul(avg_time, R(15, 10))
        high_time_attempts == Select(df, {r \in DOMAIN df : RGt(FromInt(r.Time_Taken), limit)})
        high_time_wrong == CountCorrect(high_time_attempts, 0)
        error_rate_on_slow == R(high_time_wrong, Rows(high_time_attempts))
    IN  IF Rows(high_time_attempts) > 0 /\ RGe(error_rate_on_slow, R(5, 10))
        THEN DictSet(EmptyDict, ConfidenceKey,
                [severity |-> IF RLt(error_rate_on_slow, R(7, 10)) THEN "medium" ELSE "high",
                 hesitation_severity |-> error_rate_on_slow,
                 affected_questions |-> Rows(high_time_attempts),
                 description |-> [text |-> "Hesitates on",
                                  percent |-> RoundHalfEven(RMul(R(100, 1), error_rate_on_slow)),
                                  tenths |-> RoundHalfEven(RMul(R(10, 1), limit))]])
        ELSE EmptyDict

\* LearningGapDetector._detect_confidence_gaps (the frame has Time_Taken)
_detect_confidence_gaps(df) ==
    LET avg_time == MeanTime(df)
        limit == RMul(avg_time, R(15, 10))
        high_time_attempts == Select(df, {r \in DOMAIN df : RGt(FromInt(r.Time_Taken), limit)})
        high_time_wrong == CountCorrect(high_time_attempts, 0)
        error_rate_on_slow == R(high_time_wrong, Rows(high_time_attempts))
    IN  IF Rows(high_time_attempts) > 0 /\ RGt(error_rate_on_slow, R(5, 10))
        THEN DictSet(EmptyDict, ConfidenceKey,
                [severity |-> IF RLt(error_rate_on_slow, R(7, 10)) THEN "medium" ELSE "high",
                 hesitation_severity |-> error_rate_on_slow,
                 affected_questions |-> Rows(high_time_attempts),
                 description |-> [text |-> "Hesitates on",
                                  percent |-> RoundHalfEven(RMul(R(100, 1), error_rate_on_slow)),
                                  tenths |-> RoundHalfEven(RMul(R(10, 1), limit))]])
        ELSE EmptyDict

\* mutant: two fast attempts are enough (>= 2 for > 2)
SpeedGapsFromTwo(df) ==
    LET avg_time == MeanTime(df)
        limit == RMul(avg_time, R(5, 10))
        fast_attempts == Select(df, {r \in DOMAIN df : RLt(FromInt(r.Time_Taken), limit)})
        fast_wrong == CountCorrect(fast_attempts, 0)
        fast_ratio == R(fast_wrong, Rows(fast_attempts))
    IN  IF Rows(fast_attempts) >= 2 /\ RGt(fast_ratio, R(4, 10))
        THEN DictSet(EmptyDict, SpeedKey,
                [severity |-> "medium",
                 confidence |-> fast_ratio,
                 affected_questions |-> Rows(fast_attempts),
                 description |-> [text |-> "Answers too quickly without careful consideration"]])
        ELSE EmptyDict

\* LearningGapDetector._detect_speed_gaps (the frame has Time_Taken)
_detect_speed_gaps(df) ==
    LET avg_time == MeanTime(df)
        limit == RMul(avg_time, R(5, 10))
        fast_attempts == Select(df, {r \in DOMAIN df : RLt(FromInt(r.Time_Taken), limit)})
        fast_wrong == CountCorrect(fast_attempts, 0)
        fast_ratio == R(fast_wrong, Rows(fast_attempts))
    IN  IF Rows(fast_attempts) > 2 /\ RGt(fast_ratio, R(4, 10))
        THEN DictSet(EmptyDict, SpeedKey,
                [severity |-> "medium",
                 confidence |-> fast_ratio,
                 affected_questions |-> Rows(fast_attempts),
                 description |-> [text |-> "Answers too quickly without careful consideration"]])
        ELSE EmptyDict

\* mutant: a High finding would cost more than 0.1; here every finding costs 0.15
ScorePenaltyFifteen(accuracy, num_gaps, df, cols) ==
    LET consistency_bonus ==
            IF "Time_Taken" \in cols
            THEN (IF StdLtHalfMean(StdTime(df), MeanTime(df)) THEN R(5, 100) ELSE R(0, 1))
            ELSE R(0, 1)
    IN  RMax(R(0, 1), RMin(R(1, 1), RAdd(RSub(accuracy, RMul(FromInt(num_gaps), R(15, 100))), consistency_bonus)))

\* mutant: the score is not clamped
ScoreUnclamped(accuracy, num_gaps, df, cols) ==
    LET consistency_bonus ==
            IF "Time_Taken" \in cols
            THEN (IF StdLtHalfMean(StdTime(df), MeanTime(df)) THEN R(5, 100) ELSE R(0, 1))
            ELSE R(0, 1)
    IN  RAdd(RSub(accuracy, RMul(FromInt(num_gaps), R(1, 10))), consistency_bonus)

\* LearningGapDetector._calculate_overall_score
_calculate_overall_score(accuracy, num_gaps, df, cols) ==
    LET base_score == accuracy
        gap_penalty == RMul(FromInt(num_gaps), R(1, 10))
        consistency_bonus ==
            IF "Time_Taken" \in cols
            THEN (IF StdLtHalfMean(StdTime(df), MeanTime(df)) THEN R(5, 100) ELSE R(0, 1))
            ELSE R(0, 1)
    IN  RMax(R(0, 1), RMin(R(1, 1), RAdd(RSub(base_score, gap_penalty), consistency_bonus)))

\* LearningGapDetector._empty_analysis
_empty_analysis ==
    [total_attempts |-> 0, correct_answers |-> 0, accuracy |-> R(0, 1), avg_time |-> R(0, 1),
     gaps |-> EmptyDict, overall_score |-> R(0, 1), student_id |-> "Unknown"]

Returned(v) == [status |-> "returned", value |-> v]
Raised(e) == [status |-> "raised", error |-> e]

StudentId == "S001"

\* mutant: the body reads the Topic column without asking for it
AnalyzeRequiresTopic(df, cols, order) ==
    IF "Time_Taken" \notin cols THEN Raised("KeyError: 'Time_Taken'")
    ELSE IF "Topic" \notin cols THEN Raised("KeyError: 'Topic'")
    ELSE
    LET total_attempts == Rows(df)
        correct_answers == CountCorrect(df, 1)
        accuracy == IF total_attempts > 0 THEN R(correct_answers, total_attempts) ELSE R(0, 1)
        avg_time == MeanTime(df)
        concept_gaps == _detect_concept_gaps(df, cols, order)
        confidence_gaps == _detect_confidence_gaps(df)
        speed_gaps == _detect_speed_gaps(df)
        all_gaps == Merge(Merge(concept_gaps, confidence_gaps), speed_gaps)
        overall_score == _calculate_overall_score(accuracy, Len(all_gaps), df, cols)
    IN  Returned([total_attempts |-> total_attempts, correct_answers |-> correct_answers,
                  accuracy |-> accuracy, avg_time |-> avg_time, gaps |-> all_gaps,
                  overall_score |-> overall_score, student_id |-> StudentId])

\* analyze_student below its empty-frame guard (lines 29-58).  On an empty
\* frame mean() is NaN, kept as 0/0, and every comparison with it is false.
AnalyzeBody(df, cols, order) ==
    IF "Time_Taken" \notin cols THEN Raised("KeyError: 'Time_Taken'")
    ELSE
    LET total_attempts == Rows(df)
        correct_answers == CountCorrect(df, 1)
        accuracy == IF total_attempts > 0 THEN R(correct_answers, total_attempts) ELSE R(0, 1)
        avg_time == MeanTime(df)
        concept_gaps == _detect_concept_gaps(df, cols, order)
        confidence_gaps == _detect_confidence_gaps(df)
        speed_gaps == _detect_speed_gaps(df)
        all_gaps == Merge(Merge(concept_gaps, confidence_gaps), speed_gaps)
        overall_score == _calculate_overall_score(accuracy, Len(all_gaps), df, cols)
    IN  Returned([total_attempts |-> total_attempts, correct_answers |-> correct_answers,
                  accuracy |-> accuracy, avg_time |-> avg_time, gaps |-> all_gaps,
                  overall_score |-> overall_score, student_id |-> StudentId])

\* mutant: the call keeps its findings on the object
AnalyzeStoresGaps(df, cols, order) ==
    IF Rows(df) = 0 THEN self
    ELSE [self EXCEPT !.gaps_detected = _detect_concept_gaps(df, cols, order)]

\* the fields of the object after analyze_student(student_df): no statement
\* of the method or of the helpers it calls assigns to self
SelfAfterAnalyze(df, cols, order) == self

\* mutant: no guard for the empty frame
AnalyzeWithoutEmptyGuard(df, cols, order) == AnalyzeBody(df, cols, order)

\* LearningGapDetector.analyze_student
analyze_student(df, cols, order) ==
    IF Rows(df) = 0 THEN Returned(_empty_analysis)
    ELSE AnalyzeBody(df, cols, order)

\* ----------------------------------------------- the recommendation engine
\* str.upper(), str.replace("_", " "), str.title(), character by character
UpperChar(c) ==
    CASE c = "a" -> "A"
      [] c = "d" -> "D"
      [] c = "g" -> "G"
      [] c = "l" -> "L"
      [] OTHER -> c
ReplaceUnderscore(str) == [i \in DOMAIN str |-> IF str[i] = "_" THEN " " ELSE str[i]]
Title(str) ==
    [i \in DOMAIN str |->
        IF i = 1 \/ str[i - 1] \in {" ", "_"} THEN UpperChar(str[i]) ELSE LowerChar(str[i])]

\* severity.upper() and trend.capitalize(), on the words they are applied to
UpperWord(word) ==
    CASE word = "high" -> "HIGH"
      [] word = "medium" -> "MEDIUM"
      [] word = "low" -> "LOW"
      [] OTHER -> word
Capitalize(word) ==
    CASE word = "stable" -> "Stable"
      [] word = "declining" -> "Declining"
      [] word = "improving" -> "Improving"
      [] OTHER -> word

\* gap_name.split('_')[0]: the key up to its first underscore
SplitFirst(gap_name) ==
    CASE gap_name[1] = "concept_gap_" -> "concept"
      [] gap_name[1] = "confidence_gap" -> "confidence"
      [] gap_name[1] = "speed_gap" -> "speed"
      [] gap_name[1] = "pace_gap" -> "pace"

\* RecommendationEngine._build_intervention_library: the entries of the
\* topics the model writes "alg" (algebra) and "d a" (data analysis)
_build_intervention_library ==
    << [key |-> <<"a", "l", "g">>,
        value |-> [practice_problems |-> 12, estimated_time |-> "60 minutes",
                   key_concepts |-> "Variables, Equations, Solving, Substitution, Expressions",
                   practice_resource_link |-> "khanacademy.org/math/algebra",
                   concept_guide_link |-> "mathplanet.com/education/algebra",
                   interactive_guide_link |-> "desmos.com/calculator"]],
       [key |-> <<"d", " ", "a">>,
        value |-> [practice_problems |-> 8, estimated_time |-> "55 minutes",
                   key_concepts |-> "Mean, Median, Mode, Graphs, Probability",
                   practice_resource_link |-> "khanacademy.org/math/statistics-probability/displaying-describing-data",
                   concept_guide_link |-> "khanacademy.org/math/statistics-probability",
                   interactive_guide_link |-> "phet.colorado.edu"]] >>

\* RecommendationEngine.__init__
intervention_library == _build_intervention_library

Max2(a, b) == IF a >= b THEN a ELSE b
Min2(a, b) == IF a <= b THEN a ELSE b

\* RecommendationEngine._recommend_concept_review.  The lists that
\* resources.get_resources_for_topic adds to resources are not carried.
_recommend_concept_review(gap_name, gap_details) ==
    LET topic_raw == Lower(gap_name[2])
        topic_display == Title(ReplaceUnderscore(topic_raw))
        in_library == HasKey(intervention_library, topic_raw)
        library_info == Get(intervention_library, topic_raw)
        library_problems == IF in_library THEN library_info.practice_problems ELSE 10
        key_concepts == IF in_library THEN library_info.key_concepts ELSE "core concepts"
        trend == IF "trend" \in DOMAIN gap_details THEN gap_details.trend ELSE "stable"
        severity == gap_details.severity
        description_prefix ==
            IF trend = "declining" THEN "Urgent: Student's understanding is deteriorating. "
            ELSE IF trend = "improving" THEN "Student is showing progress, but still has a gap. "
            ELSE "Consistent difficulty. "
        action_suffix ==
            IF trend = "declining" THEN "Focus on foundational concepts."
            ELSE IF trend = "improving" THEN "Reinforce learning with varied problems."
            ELSE "Address specific misconceptions."
        description_text ==
            [prefix |-> description_prefix, topic |-> topic_display,
             permille |-> RoundHalfEven(RMul(gap_details.confidence, R(1000, 1))),
             suffix |-> action_suffix]
        practice_type ==
            IF severity = "high" /\ trend = "declining" THEN "Foundational Review + Intensive Practice"
            ELSE IF severity = "medium" /\ trend = "declining" THEN "Targeted Review + Extra Practice"
            ELSE IF severity = "improving" /\ severity # "low" THEN "Reinforcement + Challenge Problems"
            ELSE "Structured Review + Practice"
        duration ==
            IF severity = "high" /\ trend = "declining" THEN "1-2 weeks, 45-60 min daily"
            ELSE IF severity = "medium" /\ trend = "declining" THEN "1 week, 30-45 min daily"
            ELSE IF severity = "improving" /\ severity # "low" THEN "3-5 days, 20-30 min daily"
            ELSE "2-3 days, 30-45 min daily"
        practice_problems ==
            IF severity = "high" /\ trend = "declining" THEN Max2(library_problems, 20)
            ELSE IF severity = "medium" /\ trend = "declining" THEN Max2(library_problems, 15)
            ELSE IF severity = "improving" /\ severity # "low" THEN Min2(library_problems, 10)
            ELSE library_problems
        resources ==
            IF in_library
            THEN {"Practice Questions", "Concept Guide", "Interactive/Visual Guide"}
            ELSE {}
    IN  [title |-> [text |-> "Personalized Intervention", topic |-> topic_display,
                    trend |-> Capitalize(trend)],
         description |-> description_text,
         priority |-> UpperWord(severity),
         practice_type |-> practice_type,
         target_topics |-> <<topic_display>>,
         duration |-> duration,
         expected_impact |-> IF "expected_impact" \in DOMAIN gap_details
                             THEN gap_details.expected_impact ELSE R(25, 100),
         steps |-> [key_concepts |-> key_concepts, guided_from |-> practice_problems \div 2,
                    guided_to |-> practice_problems \div 2 + 5,
                    practice_problems |-> practice_problems],
         resources |-> resources]

\* RecommendationEngine._recommend_confidence_building
_recommend_confidence_building(gap_details) ==
    [title |-> "Confidence & Clarity Building",
     description |-> gap_details.description,
     priority |-> UpperWord(gap_details.severity),
     practice_type |-> "Guided Problem-Solving",
     target_topics |-> <<"All covered topics">>,
     duration |-> "1-2 weeks, 20 min daily",
     expected_impact |-> R(20, 100)]

\* RecommendationEngine._recommend_deliberate_practice
_recommend_deliberate_practice(gap_details) ==
    [title |-> "Deliberate, Focused Practice",
     description |-> gap_details.description,
     priority |-> "MEDIUM",
     practice_type |-> "Slow & Thoughtful Practice",
     target_topics |-> <<"Problem-solving strategy">>,
     duration |-> "1 week, 25 min daily",
     expected_impact |-> R(15, 100)]

\* RecommendationEngine._get_maintenance_recommendation
_get_maintenance_recommendation ==
    [title |-> "Continued Practice & Advancement",
     description |-> "Student is performing well; continue with current pace",
     priority |-> "LOW",
     practice_type |-> "Regular Practice + Challenge",
     target_topics |-> <<"All topics">>,
     duration |-> "Ongoing",
     expected_impact |-> R(10, 100)]

None == [none |-> TRUE]

\* mutant: a finding of no known kind is given the practice recommendation
CreateForAnyKind(gap_name, gap_details) ==
    LET gap_type == SplitFirst(gap_name)
    IN  IF gap_type = "concept" THEN _recommend_concept_review(gap_name, gap_details)
        ELSE IF gap_type = "confidence" THEN _recommend_confidence_building(gap_details)
        ELSE _recommend_deliberate_practice(gap_details)

\* RecommendationEngine._create_recommendation
_create_recommendation(gap_name, gap_details) ==
    LET gap_type == SplitFirst(gap_name)
    IN  IF gap_type = "concept" THEN _recommend_concept_review(gap_name, gap_details)
        ELSE IF gap_type = "confidence" THEN _recommend_confidence_building(gap_details)
        ELSE IF gap_type = "speed" THEN _recommend_deliberate_practice(gap_details)
        ELSE None

\* {'high': 3, 'medium': 2, 'low': 1}.get(severity, 0)
SeverityRank(severity) ==
    CASE severity = "high" -> 3
      [] severity = "medium" -> 2
      [] severity = "low" -> 1
      [] OTHER -> 0

RankIs(n, item) == SeverityRank(item.value.severity) = n
Bucket(items, n) == SelectSeq(items, LAMBDA item : RankIs(n, item))
Reverse(seq) == [i \in DOMAIN seq |-> seq[Len(seq) + 1 - i]]

\* mutant: sorted ascending and then turned round, which turns the ties round too
SortedAscendingReversed(items) ==
    Reverse(Bucket(items, 0) \o Bucket(items, 1) \o Bucket(items, 2) \o Bucket(items, 3))

\* sorted(gaps.items(), key=rank, reverse=True): a stable sort, so the items
\* of one rank stay in the order of the dict
sorted_gaps(items) ==
    Bucket(items, 3) \o Bucket(items, 2) \o Bucket(items, 1) \o Bucket(items, 0)

\* the loop of generate_recommendations: one recommendation per finding, in
\* the sorted order, a finding of no known kind giving none
RECURSIVE RecommendationLoop(_, _, _)
RecommendationLoop(sorted, i, recs) ==
    IF i > Len(sorted) THEN recs
    ELSE LET rec == _create_recommendation(sorted[i].key, sorted[i].value)
         IN  RecommendationLoop(sorted, i + 1, IF rec # None THEN Append(recs, rec) ELSE recs)

\* mutant: the list is returned whole
RecommendationsUncut(results) ==
    LET recs == RecommendationLoop(sorted_gaps(results.gaps), 1, <<>>)
    IN  IF recs = <<>> THEN <<_get_maintenance_recommendation>> ELSE recs

\* RecommendationEngine.generate_recommendations
generate_recommendations(results) ==
    LET recs == RecommendationLoop(sorted_gaps(results.gaps), 1, <<>>)
        recommendations_ == IF recs = <<>> THEN <<_get_maintenance_recommendation>> ELSE recs
    IN  SubSeq(recommendations_, 1, Min2(Len(recommendations_), RecommendationCap))

\* ------------------------------------------------------------ the reports
\* gap_name.replace('_', ' ').title(), on the prefix and on the suffix of a key
TitlePrefix(prefix) ==
    CASE prefix = "concept_gap_" -> "Concept Gap "
      [] prefix = "confidence_gap" -> "Confidence Gap"
      [] prefix = "speed_gap" -> "Speed Gap"
TitleKey(gap_name) == <<TitlePrefix(gap_name[1]), Title(ReplaceUnderscore(gap_name[2]))>>

\* f"{x:.1%}" and f"{x:.1f}": the digits printed
Permille(x) == RoundHalfEven(RMul(x, R(1000, 1)))
Tenths(x) == RoundHalfEven(RMul(x, R(10, 1)))
Percent(x) == RoundHalfEven(RMul(x, R(100, 1)))

\* details['confidence'] on every finding in turn: the first finding without
\* the key raises KeyError
LacksConfidence(gaps) == \E i \in DOMAIN gaps : "confidence" \notin DOMAIN gaps[i].value

\* test_gap_detection, the printout of the gaps (test_demo.py lines 61-66)
PrintGaps(results) ==
    IF LacksConfidence(results.gaps) THEN Raised("KeyError: 'confidence'")
    ELSE Returned([i \in DOMAIN results.gaps |->
                      [gap |-> TitleKey(results.gaps[i].key),
                       severity |-> UpperWord(results.gaps[i].value.severity),
                       confidence |-> Permille(results.gaps[i].value.confidence),
                       description |-> results.gaps[i].value.description]])

\* ReportGenerator.generate_text_summary
generate_text_summary(results, recs) ==
    IF LacksConfidence(results.gaps) THEN Raised("KeyError: 'confidence'")
    ELSE Returned(
        [student |-> results.student_id,
         total_attempts |-> results.total_attempts,
         correct_answers |-> results.correct_answers,
         accuracy |-> Permille(results.accuracy),
         avg_time |-> Tenths(results.avg_time),
         overall_score |-> Permille(results.overall_score),
         gaps |-> [i \in DOMAIN results.gaps |->
                      [gap |-> TitleKey(results.gaps[i].key),
                       severity |-> UpperWord(results.gaps[i].value.severity),
                       confidence |-> Permille(results.gaps[i].value.confidence),
                       details |-> results.gaps[i].value.description]],
         on_track |-> (results.gaps = <<>>),
         recommendations |-> [n \in DOMAIN recs |->
                      [title |-> recs[n].title, priority |-> recs[n].priority,
                       duration |-> recs[n].duration,
                       expected_impact |-> Percent(recs[n].expected_impact)]]])

\* ReportGenerator.generate_csv_export
generate_csv_export(results) ==
    IF LacksConfidence(results.gaps) THEN Raised("KeyError: 'confidence'")
    ELSE Returned(
        [student |-> results.student_id,
         total_attempts |-> results.total_attempts,
         correct_answers |-> results.correct_answers,
         accuracy |-> Permille(results.accuracy),
         avg_time |-> Tenths(results.avg_time),
         overall_score |-> Permille(results.overall_score),
         number_of_gaps |-> Len(results.gaps),
         gaps |-> [i \in DOMAIN results.gaps |->
                      [gap |-> results.gaps[i].key,
                       severity |-> results.gaps[i].value.severity,
                       confidence |-> Permille(results.gaps[i].value.confidence),
                       description |-> results.gaps[i].value.description]]])

\* ------------------------------------------------------- the fleet rollup
FleetTopic == <<"A", "l", "g">>
FleetColumns == {"Topic", "Time_Taken"}

\* mutant: a score of exactly 0.5 counted as high risk
RiskBucketHighAtHalf(overall_score) ==
    IF RLe(overall_score, R(5, 10)) THEN "high"
    ELSE IF RLe(R(5, 10), overall_score) /\ RLt(overall_score, R(75, 100)) THEN "medium"
    ELSE "on_track"

\* the risk class of a student (app.py lines 333-338)
RiskBucket(overall_score) ==
    IF RLt(overall_score, R(5, 10)) THEN "high"
    ELSE IF RLe(R(5, 10), overall_score) /\ RLt(overall_score, R(75, 100)) THEN "medium"
    ELSE "on_track"

Bump(count, bucket, risk) == IF risk = bucket THEN count + 1 ELSE count

\* mutant: a student with findings adds one to the gap total
FleetStepCountsStudents(acc, student_analysis) ==
    LET risk == RiskBucket(student_analysis.overall_score)
    IN  [total_gaps |-> acc.total_gaps + (IF student_analysis.gaps # <<>> THEN 1 ELSE 0),
         overall_correct_attempts |-> acc.overall_correct_attempts + student_analysis.correct_answers,
         overall_total_attempts |-> acc.overall_total_attempts + student_analysis.total_attempts,
         high_risk_count |-> Bump(acc.high_risk_count, "high", risk),
         medium_risk_count |-> Bump(acc.medium_risk_count, "medium", risk),
         on_track_count |-> Bump(acc.on_track_count, "on_track", risk)]

\* one round of the loop over the students, after analyze_student returned
\* (app.py lines 327-338)
FleetStep(acc, student_analysis) ==
    LET risk == RiskBucket(student_analysis.overall_score)
    IN  [total_gaps |-> acc.total_gaps + Len(student_analysis.gaps),
         overall_correct_attempts |-> acc.overall_correct_attempts + student_analysis.correct_answers,
         overall_total_attempts |-> acc.overall_total_attempts + student_analysis.total_attempts,
         high_risk_count |-> Bump(acc.high_risk_count, "high", risk),
         medium_risk_count |-> Bump(acc.medium_risk_count, "medium", risk),
         on_track_count |-> Bump(acc.on_track_count, "on_track", risk)]

\* student_data[student_data['Student_ID'] == student_id]
StudentFrame(data, student_id) == Select(data, {r \in DOMAIN data : r.Student_ID = student_id})

\* the loop over all_student_ids (app.py lines 324-338); the frames of the
\* rollup have the columns Topic and Time_Taken and a single topic
RECURSIVE FleetLoop(_, _, _, _)
FleetLoop(data, ids, i, acc) ==
    IF i > Len(ids) THEN acc
    ELSE LET student_df_ == StudentFrame(data, ids[i])
             student_analysis == analyze_student(student_df_, FleetColumns, <<FleetTopic>>).value
         IN  FleetLoop(data, ids, i + 1, FleetStep(acc, student_analysis))

\* what the rollup returns after the loop (app.py lines 340-350)
FleetSummary(acc) ==
    [total_gaps_detected |-> acc.total_gaps,
     total_attempts |-> acc.overall_total_attempts,
     total_correct |-> acc.overall_correct_attempts,
     overall_accuracy |-> IF acc.overall_total_attempts > 0
                          THEN R(acc.overall_correct_attempts, acc.overall_total_attempts)
                          ELSE R(0, 1),
     high_risk_students |-> acc.high_risk_count,
     medium_risk_students |-> acc.medium_risk_count,
     on_track_students |-> acc.on_track_count]

\* _perform_overall_analysis(detector, student_data)
_perform_overall_analysis(data, ids) ==
    IF Rows(data) = 0
    THEN [total_gaps_detected |-> 0, total_attempts |-> 0, total_correct |-> 0,
          overall_accuracy |-> R(0, 1), high_risk_students |-> 0,
          medium_risk_students |-> 0, on_track_students |-> 0]
    ELSE FleetSummary(FleetLoop(data, ids, 1,
                        [total_gaps |-> 0, overall_correct_attempts |-> 0,
                         overall_total_attempts |-> 0, high_risk_count |-> 0,
                         medium_risk_count |-> 0, on_track_count |-> 0]))


\* ------------------------------------------------------------- ingestion
\* A cell of a raw table is a number, an empty cell (NaN) or a text that is
\* no number.  A raw row carries student_id and the columns of raw_columns.
Num(v) == [kind |-> "num", v |-> v]
NaNCell == [kind |-> "nan", v |-> 0]
Text == [kind |-> "text", v |-> 0]
RawCorrect == {NaNCell, Text, Num(0), Num(1), Num(2)}
RawTimes == {NaNCell, Text, Num(5), Num(30)}
RawColumnSets == SUBSET {"correct", "time_taken"}
RawRowsOf(cols) ==
    IF cols = {"correct", "time_taken"} THEN [student_id : {StudentId}, correct : RawCorrect, time_taken : RawTimes]
    ELSE IF cols = {"correct"} THEN [student_id : {StudentId}, correct : RawCorrect]
    ELSE IF cols = {"time_taken"} THEN [student_id : {StudentId}, time_taken : RawTimes]
    ELSE [student_id : {StudentId}]

\* the lambda of the Correct column: 1 if pd.to_numeric(x, errors='coerce') > 0.5 else 0
to_correct(x) == IF x.kind = "num" /\ 2 * x.v > 1 THEN 1 ELSE 0

\* Series.mean() of the time column as the file gave it: a column that holds
\* a text has dtype object and its mean raises; a numeric column skips its
\* empty cells, and the mean of nothing is NaN
TimeHasText(raw) == \E r \in DOMAIN raw : r.time_taken.kind = "text"
RawTimeMean(raw) ==
    LET nums == {r \in DOMAIN raw : r.time_taken.kind = "num"}
        n == SumOver([r \in nums |-> raw[r]], nums)
    IN  IF n = 0 THEN NaN
        ELSE [nan |-> FALSE, v |-> R(SumOver([r \in nums |-> raw[r] * r.time_taken.v], nums), n)]

\* pd.to_numeric(col, errors='coerce').fillna(mean) of one cell
FillTime(x, mean) ==
    IF x.kind = "num" THEN [nan |-> FALSE, v |-> FromInt(x.v)] ELSE mean

\* the lambda of the Time_Taken column: max(10, x); 10 when x is NaN
FloorTime(x) == IF ~x.nan /\ RGt(x.v, FromInt(10)) THEN x.v ELSE FromInt(10)

\* the rows of the transformed table, one for each raw row; sort_values
\* reorders them and a frame keeps no order here
TransformedRow(raw, cols) ==
    LET mean == IF "time_taken" \in cols THEN RawTimeMean(raw) ELSE NaN IN
    [r \in DOMAIN raw |->
        [Student_ID |-> r.student_id,
         Correct |-> IF "correct" \in cols THEN to_correct(r.correct) ELSE to_correct(Num(1)),
         Time_Taken |-> IF "time_taken" \in cols THEN FloorTime(FillTime(r.time_taken, mean))
                        ELSE FloorTime([nan |-> FALSE, v |-> FromInt(60)])]]

transform_data(raw, cols) ==
    IF Rows(raw) = 0 THEN Returned(EmptyFrame)
    ELSE IF "time_taken" \in cols /\ TimeHasText(raw) THEN Raised("TypeError")
    ELSE LET f == TransformedRow(raw, cols) IN
         Returned([o \in {f[r] : r \in DOMAIN raw} |->
                     SumOver([r \in {x \in DOMAIN raw : f[x] = o} |-> raw[r]],
                             {x \in DOMAIN raw : f[x] = o})])


\* ---------------------------------------------------------- AnalysisUtils
\* the loop of get_topic_wise_performance over Topic.unique(), from position i
RECURSIVE TopicStatsLoop(_, _, _, _)
TopicStatsLoop(df, order, i, topic_stats) ==
    IF i > Len(order) THEN topic_stats
    ELSE
    LET topic == order[i]
        topic_data == Select(df, {r \in DOMAIN df : r.Topic = topic})
        attempts == Rows(topic_data)
        correct == CountCorrect(topic_data, 1)
    IN  TopicStatsLoop(df, order, i + 1,
            DictSet(topic_stats, topic,
                [attempts |-> attempts, correct |-> correct,
                 accuracy |-> R(correct, attempts), avg_time |-> MeanTime(topic_data)]))

\* AnalysisUtils.get_topic_wise_performance: a frame with topics and without
\* Time_Taken raises at topic_data['Time_Taken']
get_topic_wise_performance(df, cols, order) ==
    IF "Topic" \notin cols THEN Returned(EmptyDict)
    ELSE IF "Time_Taken" \notin cols /\ order # <<>> THEN Raised("KeyError: 'Time_Taken'")
    ELSE Returned(TopicStatsLoop(df, order, 1, EmptyDict))

\* the list comprehension of identify_weak_topics
WeakOf(topic_stats, limit) ==
    LET items == SelectSeq(topic_stats,
                     LAMBDA item : RLt(item.value.accuracy, limit) /\ item.value.attempts >= 3)
    IN  [i \in DOMAIN items |-> items[i].key]

\* AnalysisUtils.identify_weak_topics
identify_weak_topics(df, cols, order, limit) ==
    LET topic_stats == get_topic_wise_performance(df, cols, order) IN
    IF topic_stats.status = "raised" THEN topic_stats
    ELSE Returned(WeakOf(topic_stats.value, limit))


\* ------------------------------------------- progress over time (utils.py)
\* A frame whose order matters is the sequence of its rows.
\* df.sort_values('Timestamp'): the rows by ascending Timestamp (the
\* timestamps of a student's attempts are distinct)
RECURSIVE InsertByTimestamp(_, _)
InsertByTimestamp(row, sorted) ==
    IF sorted = <<>> THEN <<row>>
    ELSE IF row.Timestamp < Head(sorted).Timestamp THEN <<row>> \o sorted
    ELSE <<Head(sorted)>> \o InsertByTimestamp(row, Tail(sorted))

RECURSIVE sort_values(_)
sort_values(df) ==
    IF df = <<>> THEN <<>>
    ELSE InsertByTimestamp(df[Len(df)], sort_values(SubSeq(df, 1, Len(df) - 1)))

\* (part['Correct'] == 1).sum()
RECURSIVE CorrectCount(_)
CorrectCount(part) ==
    IF part = <<>> THEN 0
    ELSE (IF Head(part).Correct = 1 THEN 1 ELSE 0) + CorrectCount(Tail(part))

\* the trend of an improvement
TrendLabel(improvement) ==
    IF RGt(improvement, R(1, 10)) THEN "improving"
    ELSE IF RLt(improvement, R(-1, 10)) THEN "declining"
    ELSE "stable"

\* the two halves of the sorted frame and what is returned for them
TrendOfHalves(first_half, second_half) ==
    LET first_half_acc == IF Len(first_half) > 0 THEN R(CorrectCount(first_half), Len(first_half)) ELSE R(0, 1)
        second_half_acc == IF Len(second_half) > 0 THEN R(CorrectCount(second_half), Len(second_half)) ELSE R(0, 1)
        improvement == RSub(second_half_acc, first_half_acc)
    IN  [trend |-> TrendLabel(improvement), improvement |-> improvement,
         first_half_accuracy |-> first_half_acc, second_half_accuracy |-> second_half_acc]

TrendOnSorted(sorted) ==
    LET mid_point == Len(sorted) \div 2
    IN  TrendOfHalves(SubSeq(sorted, 1, mid_point), SubSeq(sorted, mid_point + 1, Len(sorted)))

\* mutant: the halves are taken in the order of the file
TrendUnsorted(student_df_) ==
    IF Len(student_df_) < 2 THEN [trend |-> "insufficient_data", improvement |-> R(0, 1)]
    ELSE TrendOnSorted(student_df_)

\* AnalysisUtils.get_student_progress_trend
get_student_progress_trend(student_df_) ==
    IF Len(student_df_) < 2 THEN [trend |-> "insufficient_data", improvement |-> R(0, 1)]
    ELSE TrendOnSorted(sort_values(student_df_))

\* the list rolling_accuracy of the sorted frame for a window size
RollingAccuracy(sorted, window_size) ==
    [i \in 1..(Len(sorted) - window_size + 1) |->
        R(CorrectCount(SubSeq(sorted, i, i + window_size - 1)), window_size)]

\* the velocity of the list of window accuracies
VelocityOf(rolling_accuracy) ==
    IF Len(rolling_accuracy) < 2 THEN R(0, 1)
    ELSE LET d == RSub(rolling_accuracy[Len(rolling_accuracy)], rolling_accuracy[1])
         IN  R(d.num, d.den * (Len(rolling_accuracy) - 1))

\* mutant: the window is always 3 attempts
VelocityWindowThree(student_df_) ==
    IF Len(student_df_) < 3 THEN R(0, 1)
    ELSE VelocityOf(RollingAccuracy(sort_values(student_df_), 3))

\* PerformanceMetrics.calculate_learning_velocity
calculate_learning_velocity(student_df_) ==
    IF Len(student_df_) < 3 THEN R(0, 1)
    ELSE VelocityOf(RollingAccuracy(sort_values(student_df_), Max2(3, Len(student_df_) \div 3)))


\* ---------------------------------------------------- the dashboard session
\* st.session_state as the script initialises it (app.py lines 295-301)
SessionStateInit ==
    [student_data |-> EmptyFrame, analysis_results |-> None,
     data_loaded |-> FALSE, overall_analysis_results |-> None]

\* student_data['Student_ID'].unique(), in the order of the ids (the rollup
\* and the selection do not depend on the order)
UniqueIds(data) ==
    LET present == {r.Student_ID : r \in DOMAIN data}
    IN  IF present = {"S001", "S002"} THEN <<"S001", "S002">>
        ELSE IF present = {"S001"} THEN <<"S001">>
        ELSE IF present = {"S002"} THEN <<"S002">>
        ELSE <<>>

\* mutant: a load keeps the stored overall analysis
LoadedKeepsOverall(state, data) ==
    [state EXCEPT !.student_data = data, !.data_loaded = TRUE, !.analysis_results = None]

\* the four assignments of a successful load (app.py lines 416-419, 428-431)
Loaded(state, data) ==
    [state EXCEPT !.student_data = data, !.data_loaded = TRUE,
                  !.analysis_results = None, !.overall_analysis_results = None]

\* the condition of the overall analysis block (app.py line 437)
OverallDue(state) ==
    /\ state.data_loaded
    /\ Rows(state.student_data) > 0
    /\ state.overall_analysis_results = None

\* the condition of the student selection (app.py line 500)
SelectionShown(state) == state.data_loaded /\ Rows(state.student_data) > 0

\* ----------------------------------------------------------------- state
VARIABLES
    columns,       \* the optional columns student_df has: subset of {"Topic", "Time_Taken"}
    student_df,    \* the frame of one student's attempts
    topic_order,   \* student_df['Topic'].unique()
    analysis,      \* what analyze_student(student_df) gave, NoCall before the call
    topic_cols,    \* the optional columns topic_data has
    topic_data,    \* a topic group handed to the two classifiers on their own
    gap_type,      \* what _classify_gap_type(topic, topic_data) gave, NoCall before
    difficulty,    \* what _analyze_mistake_difficulty(topic_data) gave, NoCall before
    first,         \* the first call of a session: its frame and what it gave
    analysis_results,  \* an analysis handed to the recommendation engine
    recommendations,   \* what generate_recommendations(analysis_results) gave, NoCall before
    report,            \* the printout and the two reports of analysis, NoCall before
    student_data,      \* the loaded dataset: the attempts of all students
    all_student_ids,   \* student_data['Student_ID'].unique()
    overall_analysis_results,  \* what _perform_overall_analysis gave, NoCall before
    raw_columns,   \* the columns of the raw table that map to Correct and Time_Taken
    raw_df,   \* the raw table handed to transform_data
    transformed_df,  \* what transform_data(raw_df) gave, NoCall before
    threshold,   \* the threshold identify_weak_topics was called with
    weak_topics,  \* what identify_weak_topics(student_df, threshold) gave, NoCall before
    timed_df,   \* a student's frame with Timestamp, its rows in the order of the file
    trend_info,   \* what get_student_progress_trend(timed_df) gave, NoCall before
    velocity,  \* what calculate_learning_velocity(timed_df) gave, NoCall before
    session_state,   \* st.session_state: student_data, data_loaded and the two stored analyses
    page,   \* the module selected in the sidebar
    last_event   \* what the last run of the script did

vars == <<self, columns, student_df, topic_order, analysis, topic_cols, topic_data, gap_type,
          difficulty, first, analysis_results, recommendations, report,
          student_data, all_student_ids, overall_analysis_results,
          raw_columns, raw_df, transformed_df,
          threshold, weak_topics,
          timed_df, trend_info, velocity,
          session_state, page, last_event>>
recVars == <<analysis_results, recommendations>>
fleetVars == <<student_data, all_student_ids, overall_analysis_results>>
ingestVars == <<raw_columns, raw_df, transformed_df>>
weakVars == <<threshold, weak_topics>>
trendVars == <<timed_df, trend_info, velocity>>
dashVars == <<session_state, page, last_event>>
studentVars == <<columns, student_df, topic_order, analysis>>
groupVars == <<topic_cols, topic_data, gap_type, difficulty>>
\* what the steps on a single frame leave alone
besideStudent == <<groupVars, first, recVars, fleetVars, ingestVars, weakVars, trendVars, dashVars>>
besideRec == <<self, studentVars, groupVars, first, report, fleetVars, ingestVars, weakVars, trendVars, dashVars>>
besideFleet == <<self, studentVars, groupVars, first, recVars, report, ingestVars, weakVars, trendVars, dashVars>>
\* what the steps on a topic group leave alone
besideGroup == <<self, studentVars, first, recVars, report, fleetVars, ingestVars, weakVars, trendVars, dashVars>>

NoCall == [status |-> "nocall"]

RowsOf(cols) ==
    IF cols = {"Topic", "Time_Taken"} THEN [Topic : Topics, Correct : {0, 1}, Time_Taken : Times]
    ELSE IF cols = {"Topic"} THEN [Topic : Topics, Correct : {0, 1}]
    ELSE IF cols = {"Time_Taken"} THEN [Correct : {0, 1}, Time_Taken : Times]
    ELSE [Correct : {0, 1}]

GroupRowsOf(cols) ==
    IF "Time_Taken" \in cols THEN [Topic : {GroupTopic}, Correct : {0, 1}, Time_Taken : GroupTimes]
    ELSE [Topic : {GroupTopic}, Correct : {0, 1}]

InitStudent ==
    /\ self = LearningGapDetector
    /\ first = NoCall
    /\ student_df = EmptyFrame
    /\ topic_order = <<>>
    /\ analysis = NoCall

InitGroup ==
    /\ topic_data = EmptyFrame
    /\ gap_type = NoCall
    /\ difficulty = NoCall
    /\ analysis_results = [gaps |-> EmptyDict, accuracy |-> R(0, 1)]
    /\ recommendations = NoCall
    /\ report = NoCall
    /\ student_data = EmptyFrame
    /\ all_student_ids = <<>>
    /\ overall_analysis_results = NoCall

InitDash ==
    /\ session_state = SessionStateInit
    /\ page = "Dashboard"
    /\ last_event = "start"

InitTrend ==
    /\ timed_df = <<>>
    /\ trend_info = NoCall
    /\ velocity = NoCall

InitWeak ==
    /\ threshold = R(65, 100)
    /\ weak_topics = NoCall

InitIngest ==
    /\ raw_columns = {"correct", "time_taken"}
    /\ raw_df = EmptyFrame
    /\ transformed_df = NoCall

\* ------------------------------------------- analysing one student's frame
Init ==
    /\ columns \in SUBSET {"Topic", "Time_Taken"}
    /\ InitStudent
    /\ topic_cols = {"Topic", "Time_Taken"}
    /\ InitGroup
    /\ InitDash
    /\ InitTrend
    /\ InitWeak
    /\ InitIngest

InSeq(x, s) == \E i \in DOMAIN s : s[i] = x

\* one more attempt in the frame that is going to be analysed
AppendAttempt(row) ==
    /\ analysis = NoCall
    /\ Rows(student_df) < MaxAttempts
    /\ "Topic" \in columns =>
           \E ts \in TopicSets : {topic_order[i] : i \in DOMAIN topic_order} \cup {row.Topic} \subseteq ts
    /\ student_df' = Append1(student_df, row)
    /\ topic_order' = IF "Topic" \in columns /\ ~InSeq(row.Topic, topic_order)
                      THEN Append(topic_order, row.Topic) ELSE topic_order
    /\ UNCHANGED <<self, columns, analysis, besideStudent, report>>

\* detector.analyze_student(student_df)
AnalyzeStudent ==
    /\ analysis = NoCall
    /\ analysis' = analyze_student(student_df, columns, topic_order)
    /\ self' = SelfAfterAnalyze(student_df, columns, topic_order)
    /\ UNCHANGED <<columns, student_df, topic_order, besideStudent, report>>

\* the demo on the analysis: the printout of the gaps, then the text summary
\* and the CSV export (test_report_generation is given no recommendations)
ReportAnalysis ==
    /\ analysis.status = "returned"
    /\ report = NoCall
    /\ report' = [status |-> "called",
                  printout |-> PrintGaps(analysis.value),
                  summary |-> generate_text_summary(analysis.value, <<>>),
                  csv |-> generate_csv_export(analysis.value)]
    /\ UNCHANGED <<self, studentVars, besideStudent>>

\* what the recommendations for an analysed student leave alone
besidePipeline == <<self, studentVars, groupVars, first, analysis_results, report, fleetVars, ingestVars, weakVars, trendVars, dashVars>>

\* recommendations = engine.generate_recommendations(analysis_results), on the
\* analysis that analyze_student returned
RecommendStudent ==
    /\ analysis.status = "returned"
    /\ recommendations = NoCall
    /\ recommendations' = Returned(generate_recommendations(analysis.value))
    /\ UNCHANGED besidePipeline

Next ==
    \/ \E row \in RowsOf(columns) : AppendAttempt(row)
    \/ AnalyzeStudent
    \/ ReportAnalysis
    \/ RecommendStudent

Spec == Init /\ [][Next]_vars

\* ------------------------------- the two classifiers applied to a topic group
GroupInit ==
    /\ columns = {"Topic", "Time_Taken"}
    /\ InitStudent
    /\ topic_cols \in {{"Topic", "Time_Taken"}, {"Topic"}}
    /\ InitGroup
    /\ InitDash
    /\ InitTrend
    /\ InitWeak
    /\ InitIngest

GroupAppend(row) ==
    /\ gap_type = NoCall /\ difficulty = NoCall
    /\ Rows(topic_data) < MaxGroup
    /\ topic_data' = Append1(topic_data, row)
    /\ UNCHANGED <<besideGroup, topic_cols, gap_type, difficulty>>

\* detector._classify_gap_type(topic, topic_data)
ClassifyGapType ==
    /\ gap_type = NoCall
    /\ gap_type' = Returned(_classify_gap_type(GroupTopic, topic_data, topic_cols))
    /\ UNCHANGED <<besideGroup, topic_cols, topic_data, difficulty>>

\* detector._analyze_mistake_difficulty(topic_data)
AnalyzeMistakeDifficulty ==
    /\ difficulty = NoCall
    /\ difficulty' = Returned(_analyze_mistake_difficulty(topic_data, topic_cols))
    /\ UNCHANGED <<besideGroup, topic_cols, topic_data, gap_type>>

GroupNext ==
    \/ \E row \in GroupRowsOf(topic_cols) : GroupAppend(row)
    \/ ClassifyGapType
    \/ AnalyzeMistakeDifficulty

SpecGroup == GroupInit /\ [][GroupNext]_vars

\* ------------------------------------- one detector, one call after another
SessionTopic == <<"A", "l", "g">>
SessionRows == [Topic : {SessionTopic}, Correct : {0, 1}, Time_Taken : Times]

SessionInit ==
    /\ columns = {"Topic", "Time_Taken"}
    /\ InitStudent
    /\ topic_cols = {"Topic", "Time_Taken"}
    /\ InitGroup
    /\ InitDash
    /\ InitTrend
    /\ InitWeak
    /\ InitIngest

\* one more attempt in the frame of the next call
SessionAppend(row) ==
    /\ analysis = NoCall
    /\ Rows(student_df) < MaxSessionAttempts
    /\ student_df' = Append1(student_df, row)
    /\ topic_order' = IF ~InSeq(row.Topic, topic_order)
                      THEN Append(topic_order, row.Topic) ELSE topic_order
    /\ UNCHANGED <<self, columns, analysis, besideStudent, report>>

\* detector.analyze_student(student_df), on the same detector as the calls before
SessionAnalyze ==
    /\ analysis = NoCall
    /\ analysis' = analyze_student(student_df, columns, topic_order)
    /\ self' = SelfAfterAnalyze(student_df, columns, topic_order)
    /\ first' = IF first = NoCall
                THEN [status |-> "called", student_df |-> student_df, topic_order |-> topic_order,
                      analysis |-> analysis', others |-> 0]
                ELSE IF student_df # first.student_df
                THEN [first EXCEPT !.others = 1]
                ELSE first
    /\ UNCHANGED <<columns, student_df, topic_order, groupVars, recVars, report, fleetVars, ingestVars, weakVars, trendVars, dashVars>>

\* the caller turns to another frame
SessionNextFrame ==
    /\ analysis # NoCall
    /\ student_df' = EmptyFrame
    /\ topic_order' = <<>>
    /\ analysis' = NoCall
    /\ UNCHANGED <<self, columns, besideStudent, report>>

SessionNext ==
    \/ \E row \in SessionRows : SessionAppend(row)
    \/ SessionAnalyze
    \/ SessionNextFrame

SpecSession == SessionInit /\ [][SessionNext]_vars

\* ---------------------------------- recommendations for a given analysis
\* The keys an analysis may hold, in the order they are inserted: one key of
\* no known kind, four concept keys, the confidence key and the speed key.
RecKeys ==
    << <<"pace_gap", <<>> >>,
       ConceptKey(<<"A", "l", "g">>),
       ConceptKey(<<"D", " ", "A">>),
       ConceptKey(<<"g", "a", "l">>),
       ConceptKey(<<"l", "a", "g">>),
       ConfidenceKey,
       SpeedKey >>

Severities == {"high", "medium", "low"}

\* the findings a key may carry; the first concept key may carry a trend
RecFindings(k) ==
    IF RecKeys[k][1] = "concept_gap_"
    THEN [severity : Severities, confidence : {R(2, 3)}, affected_questions : {3}]
         \cup (IF k = 2
               THEN [severity : Severities, confidence : {R(2, 3)}, affected_questions : {3},
                     trend : {"declining", "improving"}]
               ELSE {})
    ELSE IF RecKeys[k] = ConfidenceKey
    THEN [severity : Severities, hesitation_severity : {R(2, 3)}, affected_questions : {3},
          description : {"Hesitates on slow attempts"}]
    ELSE [severity : Severities, confidence : {R(2, 3)}, affected_questions : {3},
          description : {"Answers too quickly without careful consideration"}]

KeyIndex(key) == CHOOSE k \in DOMAIN RecKeys : RecKeys[k] = key

RecInit ==
    /\ columns = {"Topic", "Time_Taken"}
    /\ InitStudent
    /\ topic_cols = {"Topic", "Time_Taken"}
    /\ InitGroup
    /\ InitDash
    /\ InitTrend
    /\ InitWeak
    /\ InitIngest

\* gaps[key] = finding, for the next key of the analysis
AddFinding(k, finding) ==
    LET gaps == analysis_results.gaps IN
    /\ recommendations = NoCall
    /\ Len(gaps) < MaxFindings
    /\ gaps # <<>> => k > KeyIndex(gaps[Len(gaps)].key)
    /\ analysis_results' = [analysis_results EXCEPT !.gaps = DictSet(gaps, RecKeys[k], finding)]
    /\ UNCHANGED <<besideRec, recommendations>>

\* engine.generate_recommendations(analysis_results)
GenerateRecommendations ==
    /\ recommendations = NoCall
    /\ recommendations' = Returned(generate_recommendations(analysis_results))
    /\ UNCHANGED <<besideRec, analysis_results>>

RecNext ==
    \/ \E k \in DOMAIN RecKeys : \E finding \in RecFindings(k) : AddFinding(k, finding)
    \/ GenerateRecommendations

SpecRec == RecInit /\ [][RecNext]_vars

\* ------------------------------------------------ the rollup of a dataset
StudentIds == {"S001", "S002"}
FleetRows == [Student_ID : StudentIds, Topic : {FleetTopic}, Correct : {0, 1}, Time_Taken : Times]

FleetInit ==
    /\ columns = {"Topic", "Time_Taken"}
    /\ InitStudent
    /\ topic_cols = {"Topic", "Time_Taken"}
    /\ InitGroup
    /\ InitDash
    /\ InitTrend
    /\ InitWeak
    /\ InitIngest

\* one more attempt in the dataset
LoadAttempt(row) ==
    /\ overall_analysis_results = NoCall
    /\ Rows(student_data) < MaxFleetAttempts
    /\ student_data' = Append1(student_data, row)
    /\ all_student_ids' = IF ~InSeq(row.Student_ID, all_student_ids)
                          THEN Append(all_student_ids, row.Student_ID) ELSE all_student_ids
    /\ UNCHANGED <<besideFleet, overall_analysis_results>>

\* _perform_overall_analysis(detector, student_data)
PerformOverallAnalysis ==
    /\ overall_analysis_results = NoCall
    /\ overall_analysis_results' =
           Returned(_perform_overall_analysis(student_data, all_student_ids))
    /\ UNCHANGED <<besideFleet, student_data, all_student_ids>>

FleetNext ==
    \/ \E row \in FleetRows : LoadAttempt(row)
    \/ PerformOverallAnalysis

SpecFleet == FleetInit /\ [][FleetNext]_vars

\* ------------------------------------------------- ingesting a raw table
besideIngest == <<self, studentVars, groupVars, first, recVars, report, fleetVars, weakVars, trendVars, dashVars>>

IngestInit ==
    /\ columns = {"Topic", "Time_Taken"}
    /\ InitStudent
    /\ topic_cols = {"Topic", "Time_Taken"}
    /\ InitGroup
    /\ InitDash
    /\ InitTrend
    /\ InitWeak
    /\ raw_columns \in RawColumnSets
    /\ raw_df = EmptyFrame
    /\ transformed_df = NoCall

\* the file gains a row
AppendRaw(row) ==
    /\ transformed_df = NoCall
    /\ Rows(raw_df) < MaxRawRows
    /\ raw_df' = Append1(raw_df, row)
    /\ UNCHANGED <<raw_columns, transformed_df, besideIngest>>

\* transformed_df = transform_data(raw_df)
TransformData ==
    /\ transformed_df = NoCall
    /\ transformed_df' = transform_data(raw_df, raw_columns)
    /\ UNCHANGED <<raw_columns, raw_df, besideIngest>>

IngestNext ==
    \/ \E row \in RawRowsOf(raw_columns) : AppendRaw(row)
    \/ TransformData

SpecIngest == IngestInit /\ [][IngestNext]_vars

\* ------------------------------ the weak topics of a frame beside its analysis
Thresholds == {R(6, 10), R(65, 100)}
besideWeak == <<self, studentVars, groupVars, first, recVars, report, fleetVars, ingestVars, trendVars, dashVars>>

WeakInit ==
    /\ columns \in SUBSET {"Topic", "Time_Taken"}
    /\ InitStudent
    /\ topic_cols = {"Topic", "Time_Taken"}
    /\ InitGroup
    /\ InitDash
    /\ InitTrend
    /\ InitIngest
    /\ threshold \in Thresholds
    /\ weak_topics = NoCall

\* AnalysisUtils.identify_weak_topics(student_df, threshold)
IdentifyWeakTopics ==
    /\ weak_topics = NoCall
    /\ weak_topics' = identify_weak_topics(student_df, columns, topic_order, threshold)
    /\ UNCHANGED <<threshold, besideWeak>>

\* one more attempt in the frame, before either call
WeakAppend(row) ==
    /\ weak_topics = NoCall
    /\ AppendAttempt(row)

WeakNext ==
    \/ \E row \in RowsOf(columns) : WeakAppend(row)
    \/ AnalyzeStudent
    \/ IdentifyWeakTopics

SpecWeak == WeakInit /\ [][WeakNext]_vars

\* ------------------------------------------------ a frame with timestamps
besideTrend == <<self, studentVars, groupVars, first, recVars, report, fleetVars, ingestVars, weakVars, dashVars>>

\* the file lists the attempts oldest first or newest first
OldestFirst(df) == \A i \in 1..(Len(df) - 1) : df[i].Timestamp < df[i + 1].Timestamp
NewestFirst(df) == \A i \in 1..(Len(df) - 1) : df[i].Timestamp > df[i + 1].Timestamp
NextTimestamps(df) ==
    IF df = <<>> THEN {0}
    ELSE (IF OldestFirst(df) THEN {df[Len(df)].Timestamp + 1} ELSE {})
         \cup (IF NewestFirst(df) THEN {df[Len(df)].Timestamp - 1} ELSE {})

TrendInit ==
    /\ columns = {"Topic", "Time_Taken"}
    /\ InitStudent
    /\ topic_cols = {"Topic", "Time_Taken"}
    /\ InitGroup
    /\ InitDash
    /\ InitIngest
    /\ InitWeak
    /\ timed_df = <<>>
    /\ trend_info = NoCall
    /\ velocity = NoCall

\* one more attempt in the file
AppendTimed(ts, correct) ==
    /\ trend_info = NoCall /\ velocity = NoCall
    /\ Len(timed_df) < MaxTimed
    /\ timed_df' = Append(timed_df, [Timestamp |-> ts, Correct |-> correct])
    /\ UNCHANGED <<trend_info, velocity, besideTrend>>

\* trend_info = AnalysisUtils.get_student_progress_trend(student_data)
ProgressTrend ==
    /\ trend_info = NoCall
    /\ trend_info' = Returned(get_student_progress_trend(timed_df))
    /\ UNCHANGED <<timed_df, velocity, besideTrend>>

\* velocity = PerformanceMetrics.calculate_learning_velocity(student_data)
LearningVelocity ==
    /\ velocity = NoCall
    /\ velocity' = Returned(calculate_learning_velocity(timed_df))
    /\ UNCHANGED <<timed_df, trend_info, besideTrend>>

TrendNext ==
    \/ \E ts \in NextTimestamps(timed_df) : \E correct \in {0, 1} : AppendTimed(ts, correct)
    \/ ProgressTrend
    \/ LearningVelocity

SpecTrend == TrendInit /\ [][TrendNext]_vars

\* ------------------------------------------------- a session of the dashboard
besideDash == <<self, studentVars, groupVars, first, recVars, report, fleetVars, ingestVars, weakVars, trendVars>>

Pages == {"Dashboard", "Student Analysis", "Pattern Report", "Recommendations", "About"}
DashRows == [Student_ID : StudentIds, Topic : {FleetTopic}, Correct : {0, 1}, Time_Taken : {10}]
\* the datasets a load can bring: the frames of up to MaxDashRows rows
RECURSIVE FramesOf(_)
FramesOf(n) ==
    IF n = 0 THEN {EmptyFrame}
    ELSE LET smaller == FramesOf(n - 1)
         IN  smaller \cup {Append1(df, row) : df \in smaller, row \in DashRows}
Datasets == FramesOf(MaxDashRows)
\* what load_data and transform_data make of an uploaded file: an error or a
\* frame, which is empty for a file of no rows
UploadResults == {Raised("Exception")} \cup {Returned(data) : data \in Datasets}

DashInit ==
    /\ columns = {"Topic", "Time_Taken"}
    /\ InitStudent
    /\ topic_cols = {"Topic", "Time_Taken"}
    /\ InitGroup
    /\ InitIngest
    /\ InitWeak
    /\ InitTrend
    /\ session_state = SessionStateInit
    /\ page = "Dashboard"
    /\ last_event = "start"

\* the button Load Sample Student Data (generate_synthetic_data gives rows)
LoadSampleData(data) ==
    /\ page = "Dashboard"
    /\ Rows(data) > 0
    /\ session_state' = Loaded(session_state, data)
    /\ last_event' = "load"
    /\ UNCHANGED <<page, besideDash>>

\* a file in the uploader: loaded and transformed, or the error shown.  The
\* uploader still holds the file on the rerun, which repeats the step.
UploadFile(result) ==
    /\ page = "Dashboard"
    /\ IF result.status = "raised"
       THEN /\ session_state' = session_state
            /\ last_event' = "upload failed"
       ELSE /\ session_state' = Loaded(session_state, result.value)
            /\ last_event' = "load"
    /\ UNCHANGED <<page, besideDash>>

\* the overall analysis block of the Dashboard page
OverallAnalysisBlock ==
    /\ page = "Dashboard"
    /\ OverallDue(session_state)
    /\ session_state' =
           [session_state EXCEPT !.overall_analysis_results =
               _perform_overall_analysis(session_state.student_data,
                                         UniqueIds(session_state.student_data))]
    /\ last_event' = "overall analysis"
    /\ UNCHANGED <<page, besideDash>>

\* the button Analyze Selected Student
AnalyzeSelected(selected_student) ==
    /\ page = "Student Analysis"
    /\ SelectionShown(session_state)
    /\ InSeq(selected_student, UniqueIds(session_state.student_data))
    /\ session_state' =
           [session_state EXCEPT !.analysis_results =
               analyze_student(StudentFrame(session_state.student_data, selected_student),
                               FleetColumns, <<FleetTopic>>).value]
    /\ last_event' = "analyze"
    /\ UNCHANGED <<page, besideDash>>

\* another module chosen in the sidebar
Navigate(p) ==
    /\ p # page
    /\ page' = p
    /\ last_event' = "navigate"
    /\ UNCHANGED <<session_state, besideDash>>

DashNext ==
    \/ \E data \in Datasets : LoadSampleData(data)
    \/ \E result \in UploadResults : UploadFile(result)
    \/ OverallAnalysisBlock
    \/ \E selected_student \in StudentIds : AnalyzeSelected(selected_student)
    \/ \E p \in Pages : Navigate(p)

SpecDash == DashInit /\ [][DashNext]_vars

\* ================================================================= claims
Called == analysis.status # "nocall"
Returns == analysis.status = "returned"
WellFormed == columns = {"Topic", "Time_Taken"}
Gaps == analysis.value.gaps

\* the attempts of a topic in student_df, counted from the rows
AttemptsOf(topic) ==
    SumOver([r \in DOMAIN student_df |-> IF r.Topic = topic THEN student_df[r] ELSE 0], DOMAIN student_df)
CorrectOf(topic) ==
    SumOver([r \in DOMAIN student_df |-> IF r.Topic = topic /\ r.Correct = 1 THEN student_df[r] ELSE 0],
            DOMAIN student_df)
\* at least 3 attempts and correct/attempts < 0.6
Qualifies(topic) == AttemptsOf(topic) >= 3 /\ 10 * CorrectOf(topic) < 6 * AttemptsOf(topic)

IsConceptItem(item) == item.key[1] = "concept_gap_"
ConceptItems == {i \in DOMAIN Gaps : IsConceptItem(Gaps[i])}
\* the returned findings that are about the topic
FindingsFor(topic) == {i \in ConceptItems : Gaps[i].value.description.topic = topic}

\* C1: in the analysis of a frame that has Topic and Time_Taken, a topic has a
\* ConceptGap finding if and only if it has at least 3 attempts and
\* correct/attempts < 0.6.
C1_FindingIffQualifies ==
    (Called /\ WellFormed) =>
        /\ Returns
        /\ \A topic \in Topics : (FindingsFor(topic) # {}) <=> Qualifies(topic)

\* C2: a ConceptGap finding is High exactly when its topic's accuracy is
\* strictly below 0.4, and Medium when 0.4 <= accuracy < 0.7.
C2_SeverityFromAccuracy ==
    (Called /\ WellFormed) =>
        \A i \in ConceptItems :
            LET topic == Gaps[i].value.description.topic
                c == CorrectOf(topic)
                n == AttemptsOf(topic)
                sev == Gaps[i].value.severity
            IN  /\ (sev = "high") <=> (10 * c < 4 * n)
                /\ (10 * c >= 4 * n /\ 10 * c < 7 * n) => sev = "medium"

\* C2 witness: a finding for a topic with 2 correct of 5 attempts, Medium
C2_Witness ==
    /\ Called /\ WellFormed
    /\ \E i \in ConceptItems :
           LET topic == Gaps[i].value.description.topic IN
           /\ CorrectOf(topic) = 2 /\ AttemptsOf(topic) = 5
           /\ Gaps[i].value.severity = "medium"

HasTime == "Time_Taken" \in columns
NonEmpty == Rows(student_df) > 0
Value == analysis.value

\* the frame's totals, counted from the rows
N_ == SumOver(student_df, DOMAIN student_df)
C_ == SumOver([r \in DOMAIN student_df |-> IF r.Correct = 1 THEN student_df[r] ELSE 0], DOMAIN student_df)
S_ == SumOver([r \in DOMAIN student_df |-> student_df[r] * r.Time_Taken], DOMAIN student_df)
Q_ == SumOver([r \in DOMAIN student_df |-> student_df[r] * r.Time_Taken * r.Time_Taken], DOMAIN student_df)

\* stddev(time_taken) < 0.5 * mean(time_taken), with the sample standard
\* deviation (undefined, and the comparison false, for a single attempt):
\* (N*Q - S^2) / (N*(N-1)) < S^2 / (4*N^2)
Consistent == N_ >= 2 /\ 4 * N_ * (N_ * Q_ - S_ * S_) < (N_ - 1) * S_ * S_

\* 100 * N_ * (accuracy - 0.1 * findings + bonus)
RawScore == 100 * C_ - 10 * Len(Gaps) * N_ + (IF Consistent THEN 5 * N_ ELSE 0)
Clamped == IF RawScore < 0 THEN 0 ELSE IF RawScore > 100 * N_ THEN 100 * N_ ELSE RawScore

\* C3: for a non-empty frame, overall_score = clamp(accuracy - 0.1 * N + bonus, 0, 1),
\* N the number of entries of the returned gaps, bonus 0.05 if
\* stddev(time) < 0.5 * mean(time) and 0 otherwise.
C3_OverallScore ==
    (Called /\ HasTime /\ NonEmpty) =>
        /\ Returns
        /\ REq(Value.overall_score, R(Clamped, 100 * N_))

\* C3 witness: two findings, one of them High, and a score the clamp leaves alone
C3_Witness ==
    /\ Called /\ HasTime /\ NonEmpty
    /\ Len(Gaps) >= 2
    /\ \E i, j \in DOMAIN Gaps : Gaps[i].value.severity = "high" /\ Gaps[j].value.severity = "medium"
    /\ RawScore > 0 /\ RawScore < 100 * N_

\* C4: for a non-empty frame, 0 <= accuracy <= 1, 0 <= overall_score <= 1,
\* accuracy = correct_count / total_attempts and correct_count <= total_attempts.
C4_Ranges ==
    (Called /\ HasTime /\ NonEmpty) =>
        /\ Returns
        /\ RLe(R(0, 1), Value.accuracy) /\ RLe(Value.accuracy, R(1, 1))
        /\ RLe(R(0, 1), Value.overall_score) /\ RLe(Value.overall_score, R(1, 1))
        /\ Value.total_attempts = N_ /\ Value.correct_answers = C_
        /\ REq(Value.accuracy, R(Value.correct_answers, Value.total_attempts))
        /\ Value.correct_answers <= Value.total_attempts

\* C4 witness: accuracy - 0.1 * N + bonus falls below 0
C4_Witness == Called /\ HasTime /\ NonEmpty /\ Returns /\ RawScore < 0

\* attempts slower than 1.5 * avg_time: t > 1.5 * S/N
SlowRows == {r \in DOMAIN student_df : 2 * r.Time_Taken * N_ > 3 * S_}
SlowCount == SumOver(student_df, SlowRows)
SlowWrong == SumOver([r \in SlowRows |-> IF r.Correct = 0 THEN student_df[r] ELSE 0], SlowRows)
ConfidenceItems == {i \in DOMAIN Gaps : Gaps[i].key = ConfidenceKey}

\* C5: the confidence_gap finding is there (once) if and only if the slow set
\* is non-empty and its error rate is above 0.5; High from 0.7 on, else Medium;
\* hesitation_severity is the error rate and affected_questions the set's size.
C5_ConfidenceGap ==
    (Called /\ HasTime /\ NonEmpty) =>
        /\ Returns
        /\ Cardinality(ConfidenceItems) <= 1
        /\ (ConfidenceItems # {}) <=> (SlowCount > 0 /\ 2 * SlowWrong > SlowCount)
        /\ \A i \in ConfidenceItems :
               /\ Gaps[i].value.severity = (IF 10 * SlowWrong >= 7 * SlowCount THEN "high" ELSE "medium")
               /\ REq(Gaps[i].value.hesitation_severity, R(SlowWrong, SlowCount))
               /\ Gaps[i].value.affected_questions = SlowCount

\* C5 witness: a Medium confidence gap (error rate in (0.5, 0.7))
C5_Witness ==
    /\ Called /\ HasTime /\ NonEmpty /\ Returns
    /\ \E i \in ConfidenceItems : Gaps[i].value.severity = "medium"

\* attempts faster than 0.5 * avg_time: t < 0.5 * S/N
FastRows == {r \in DOMAIN student_df : 2 * r.Time_Taken * N_ < S_}
FastCount == SumOver(student_df, FastRows)
FastWrong == SumOver([r \in FastRows |-> IF r.Correct = 0 THEN student_df[r] ELSE 0], FastRows)
SpeedItems == {i \in DOMAIN Gaps : Gaps[i].key = SpeedKey}

\* C6: the speed_gap finding is there (once) if and only if the fast set has
\* more than 2 members and its error rate is above 0.4; it is Medium and its
\* confidence is that rate.
C6_SpeedGap ==
    (Called /\ HasTime /\ NonEmpty) =>
        /\ Returns
        /\ Cardinality(SpeedItems) <= 1
        /\ (SpeedItems # {}) <=> (FastCount > 2 /\ 10 * FastWrong > 4 * FastCount)
        /\ \A i \in SpeedItems :
               /\ Gaps[i].value.severity = "medium"
               /\ REq(Gaps[i].value.confidence, R(FastWrong, FastCount))

\* C6 witness: a speed gap over exactly 3 fast attempts, 2 of them wrong
C6_Witness ==
    /\ Called /\ HasTime /\ NonEmpty /\ Returns
    /\ SpeedItems # {} /\ FastCount = 3 /\ FastWrong = 2

\* ------------------------------------------------ claims on a topic group
GroupHasTime == "Time_Taken" \in topic_cols
GN == SumOver(topic_data, DOMAIN topic_data)
GC == SumOver([r \in DOMAIN topic_data |-> IF r.Correct = 1 THEN topic_data[r] ELSE 0], DOMAIN topic_data)
GW == GN - GC
GS == SumOver([r \in DOMAIN topic_data |-> topic_data[r] * r.Time_Taken], DOMAIN topic_data)
GQ == SumOver([r \in DOMAIN topic_data |-> topic_data[r] * r.Time_Taken * r.Time_Taken], DOMAIN topic_data)
\* N*(N-1) times the sample variance
GV == GN * GQ - GS * GS

\* t < mean - stddev and t > mean + stddev (false when stddev is undefined)
BelowBand(t) == GN >= 2 /\ GS - GN * t > 0 /\ (GN - 1) * (GS - GN * t) * (GS - GN * t) > GN * GV
AboveBand(t) == GN >= 2 /\ GN * t - GS > 0 /\ (GN - 1) * (GN * t - GS) * (GN * t - GS) > GN * GV
\* the same with a stddev of zero taken as 1
BelowBand1(t) == IF GV = 0 THEN GN * t < GS - GN ELSE BelowBand(t)
AboveBand1(t) == IF GV = 0 THEN GN * t > GS + GN ELSE AboveBand(t)

CountIn(rows) == SumOver(topic_data, rows)
CorrectIn(rows) == SumOver([r \in rows |-> IF r.Correct = 1 THEN topic_data[r] ELSE 0], rows)
Abs(i) == IF i < 0 THEN -i ELSE i

\* rules (3), (4) and (5) of the decision list
Rules345 ==
    LET easy == {r \in DOMAIN topic_data : BelowBand1(r.Time_Taken)}
        hard == {r \in DOMAIN topic_data : AboveBand1(r.Time_Taken)}
        eN == CountIn(easy)
        eC == CorrectIn(easy)
        hN == CountIn(hard)
        hC == CorrectIn(hard)
        hiW == hN - hC
        loW == eN - eC
    IN  IF eN > 1 /\ hN > 1 /\ 2 * eC > eN /\ 2 * hC < hN /\ 10 * (eC * hN - hC * eN) > 2 * eN * hN
        THEN "Theoretical"
        ELSE IF eN > 1 /\ hN > 1 /\ 10 * Abs(eC * hN - hC * eN) < 2 * eN * hN
        THEN "Conceptual"
        ELSE IF 2 * hiW > GW /\ 10 * loW < 2 * GW
        THEN "Conceptual"
        ELSE IF 10 * loW > 4 * GW /\ 10 * hiW < 3 * GW
        THEN "Theoretical"
        ELSE IF 100 * GC < 35 * GN THEN "Conceptual" ELSE "Theoretical"

C8_DifficultyPartition ==
    (difficulty # NoCall /\ GroupHasTime) =>
        LET wrong == {r \in DOMAIN topic_data : r.Correct = 0}
            d == difficulty.value
        IN  /\ d.easy = CountIn({r \in wrong : BelowBand(r.Time_Taken)})
            /\ d.hard = CountIn({r \in wrong : AboveBand(r.Time_Taken)})
            /\ d.moderate = CountIn({r \in wrong : ~BelowBand(r.Time_Taken) /\ ~AboveBand(r.Time_Taken)})
            /\ d.easy + d.moderate + d.hard = GW

\* C8 witness: a breakdown with a mistake in each of the three classes
C8_Witness ==
    /\ difficulty # NoCall /\ GroupHasTime
    /\ difficulty.value.easy > 0 /\ difficulty.value.moderate > 0 /\ difficulty.value.hard > 0

\* ------------------------------------------------------ degenerate inputs
\* C9: on an empty frame analyze_student returns the all-zero analysis, and
\* does so whatever columns the frame has (no detector reads Time_Taken).
C9_EmptyAnalysis ==
    (Called /\ ~NonEmpty) =>
        /\ Returns
        /\ Value.total_attempts = 0 /\ Value.correct_answers = 0
        /\ Value.accuracy = R(0, 1) /\ Value.avg_time = R(0, 1)
        /\ Value.gaps = <<>> /\ Value.overall_score = R(0, 1)

\* C9 witness: the empty frame without a Time_Taken column was analysed and
\* the call returned
C9_Witness == Called /\ ~NonEmpty /\ ~HasTime /\ Returns

\* C10 as stated: on a non-empty frame without Time_Taken the call returns;
\* no confidence or speed finding; concept findings are Unknown with an
\* 'unknown' breakdown; the score carries no bonus.
C10_NoTimeNeverAborts ==
    (Called /\ NonEmpty /\ ~HasTime) =>
        /\ Returns
        /\ ConfidenceItems = {} /\ SpeedItems = {}
        /\ \A i \in ConceptItems :
               /\ Gaps[i].value.gap_type = "Unknown"
               /\ Gaps[i].value.difficulty_mistakes.most_frequent = "unknown"
        /\ RLe(Value.overall_score, Value.accuracy)

\* ------------------------------------------------- missing Topic, key space
ConfidenceExpected == SlowCount > 0 /\ 2 * SlowWrong > SlowCount
SpeedExpected == FastCount > 2 /\ 10 * FastWrong > 4 * FastCount

C12_NoOverwrite ==
    (Called /\ WellFormed) =>
        /\ Returns
        /\ Len(Gaps) = Cardinality({topic \in Topics : Qualifies(topic)})
                       + (IF NonEmpty /\ ConfidenceExpected THEN 1 ELSE 0)
                       + (IF NonEmpty /\ SpeedExpected THEN 1 ELSE 0)

\* C20: all attempts correct and all times equal: no finding at all and
\* overall_score = accuracy.
AllCorrect == \A r \in DOMAIN student_df : r.Correct = 1
UniformTime == \A r1, r2 \in DOMAIN student_df : r1.Time_Taken = r2.Time_Taken
C20_AllCorrectUniform ==
    (Called /\ HasTime /\ NonEmpty /\ AllCorrect /\ UniformTime) =>
        /\ Returns
        /\ Gaps = <<>>
        /\ REq(Value.overall_score, Value.accuracy)
        /\ REq(Value.accuracy, R(1, 1))

\* C20 witness: three or more correct attempts of equal time, where the
\* consistency bonus applies
C20_Witness ==
    /\ Called /\ HasTime /\ Returns /\ N_ >= 3 /\ AllCorrect /\ UniformTime /\ Consistent

\* -------------------------------------------------------------- purity
IsRecall ==
    /\ first # NoCall /\ Called
    /\ student_df = first.student_df /\ topic_order = first.topic_order

Generated == recommendations # NoCall
Recs == recommendations.value
InGaps == analysis_results.gaps
Maintenance ==
    /\ Len(Recs) = 1
    /\ Recs[1].title = "Continued Practice & Advancement"
    /\ Recs[1].priority = "LOW"

\* C14: generate_recommendations returns at most 5 recommendations; for an
\* analysis without findings it returns exactly the maintenance recommendation,
\* whose priority is LOW.
C14_AtMostFive ==
    Generated =>
        /\ Len(Recs) <= 5
        /\ InGaps = <<>> => Maintenance

\* C14 witness: six findings that each yield a recommendation, and five returned
C14_Witness ==
    /\ Generated
    /\ Len(InGaps) = 6 /\ \A i \in DOMAIN InGaps : InGaps[i].key[1] # "pace_gap"
    /\ Len(Recs) = 5

\* the findings that yield a recommendation, by their place in gaps
Yielding == {i \in DOMAIN InGaps : InGaps[i].key[1] \in {"concept_gap_", "confidence_gap", "speed_gap"}}
RankOf(i) == SeverityRank(InGaps[i].value.severity)
\* finding i is processed before finding j
Before(i, j) == RankOf(i) > RankOf(j) \/ (RankOf(i) = RankOf(j) /\ i < j)
\* the finding a returned recommendation was built from
SourceOf(n) ==
    CHOOSE i \in Yielding : Recs[n] = _create_recommendation(InGaps[i].key, InGaps[i].value)
Kept == {SourceOf(n) : n \in DOMAIN Recs}

\* C15: the recommendations come in the order of non-increasing severity rank
\* of their findings, findings of one rank in their order in gaps; what is
\* returned are the first (at most 5) of that order, so no finding left out
\* comes before a finding kept.
C15_SeverityOrder ==
    (Generated /\ Yielding # {}) =>
        /\ Len(Recs) = Min2(5, Cardinality(Yielding))
        /\ \A n \in DOMAIN Recs :
               \E i \in Yielding : Recs[n] = _create_recommendation(InGaps[i].key, InGaps[i].value)
        /\ \A n, m \in DOMAIN Recs : n < m => Before(SourceOf(n), SourceOf(m))
        /\ \A d \in Yielding \ Kept : \A k \in Kept :
               /\ Before(k, d)
               /\ RankOf(d) <= RankOf(k)

\* C15 witness: six yielding findings of two ranks, the last one of the
\* higher rank: it is kept, and a finding inserted before it is left out
C15_Witness ==
    /\ Generated /\ Cardinality(Yielding) = 6 /\ Len(Recs) = 5
    /\ \E d \in Yielding \ Kept : \E k \in Kept : d < k /\ RankOf(k) > RankOf(d)
    /\ \E k1, k2 \in Kept : k1 # k2 /\ RankOf(k1) = RankOf(k2)

Reported == report # NoCall

\* C17 as stated: every finding of an analysis that analyze_student returned
\* has a confidence value, and the printout of the gaps, the text summary and
\* the CSV export of that analysis return.
C17_ReportsComplete ==
    Reported =>
        /\ \A i \in DOMAIN Gaps : "confidence" \in DOMAIN Gaps[i].value
        /\ report.printout.status = "returned"
        /\ report.summary.status = "returned"
        /\ report.csv.status = "returned"

\* ----------------------------------------------------------------- rollup
RolledUp == overall_analysis_results # NoCall
Overall == overall_analysis_results.value
Students == {r.Student_ID : r \in DOMAIN student_data}
\* what analyze_student gives for one student of the dataset
AnalysisOf(id) == analyze_student(StudentFrame(student_data, id), FleetColumns, <<FleetTopic>>).value
ScoreOf(id) == AnalysisOf(id).overall_score
HighRisk == {id \in Students : RLt(ScoreOf(id), R(1, 2))}
MediumRisk == {id \in Students : RGe(ScoreOf(id), R(1, 2)) /\ RLt(ScoreOf(id), R(3, 4))}
OnTrack == {id \in Students : RGe(ScoreOf(id), R(3, 4))}

\* C18: on a non-empty dataset the rollup counts each distinct student in
\* exactly one class: high risk for overall_score < 0.5, medium risk for
\* 0.5 <= overall_score < 0.75, on track otherwise; the three counts add up
\* to the number of distinct students.
C18_RiskBuckets ==
    (RolledUp /\ Rows(student_data) > 0) =>
        /\ Overall.high_risk_students = Cardinality(HighRisk)
        /\ Overall.medium_risk_students = Cardinality(MediumRisk)
        /\ Overall.on_track_students = Cardinality(OnTrack)
        /\ Overall.high_risk_students + Overall.medium_risk_students + Overall.on_track_students
               = Cardinality(Students)

\* C18 witness: two students, one with a score of exactly 0.5 (medium risk)
\* and one at high risk
C18_Witness ==
    /\ RolledUp /\ Cardinality(Students) = 2
    /\ \E id \in Students : REq(ScoreOf(id), R(1, 2))
    /\ Overall.high_risk_students = 1 /\ Overall.medium_risk_students = 1

RECURSIVE SumGaps(_)
SumGaps(ids) ==
    IF ids = {} THEN 0
    ELSE LET id == CHOOSE x \in ids : TRUE IN Len(AnalysisOf(id).gaps) + SumGaps(ids \ {id})

\* C19: the rollup gives the sum of the students' numbers of findings, the
\* number of rows, the number of correct rows and their quotient; on the
\* empty dataset it gives the all-zero summary.
C19_RollupTotals ==
    RolledUp =>
        /\ Overall.total_gaps_detected = SumGaps(Students)
        /\ Overall.total_attempts = Rows(student_data)
        /\ Overall.total_correct = CountCorrect(student_data, 1)
        /\ Rows(student_data) > 0 =>
               REq(Overall.overall_accuracy, R(CountCorrect(student_data, 1), Rows(student_data)))
        /\ Rows(student_data) = 0 =>
               /\ Overall.overall_accuracy = R(0, 1)
               /\ Overall.high_risk_students = 0
               /\ Overall.medium_risk_students = 0
               /\ Overall.on_track_students = 0

\* C19 witness: two students with findings, one of them with two
C19_Witness ==
    /\ RolledUp /\ Cardinality(Students) = 2
    /\ \A id \in Students : AnalysisOf(id).gaps # <<>>
    /\ \E id \in Students : Len(AnalysisOf(id).gaps) = 2
    /\ Overall.total_gaps_detected = 3

\* ---------------------------------------------------------------- C21
Transformed == transformed_df # NoCall /\ Rows(raw_df) > 0

\* C21: for every non-empty raw table, transform_data returns a table with as
\* many rows as the raw one, and each returned row has Time_Taken >= 10 and
\* Correct in {0, 1}, whatever the raw time and correctness cells held
\* (empty, text, below the floor).
C21_Normalised ==
    Transformed =>
        /\ transformed_df.status = "returned"
        /\ Rows(transformed_df.value) = Rows(raw_df)
        /\ \A r \in DOMAIN transformed_df.value :
              RGe(r.Time_Taken, FromInt(10)) /\ r.Correct \in {0, 1}

\* ---------------------------------------------------------------- C22
TrendOf(finding) == IF "trend" \in DOMAIN finding THEN finding.trend ELSE "stable"
\* the recommendations built from a concept finding
ConceptRecs == {n \in DOMAIN Recs : InGaps[SourceOf(n)].key[1] = "concept_gap_"}

\* C22 as stated: the concept-review template has four cases. High severity
\* with a declining trend gives 'Foundational Review + Intensive Practice',
\* medium with declining gives 'Targeted Review + Extra Practice', an
\* improving trend with a severity other than low gives 'Reinforcement +
\* Challenge Problems' over 3-5 days with at most 10 practice problems, and
\* every other combination gives 'Structured Review + Practice'.
C22_FourCases ==
    (Generated /\ Yielding # {}) =>
        \A n \in ConceptRecs :
            LET finding == InGaps[SourceOf(n)].value
                severity == finding.severity
                trend == TrendOf(finding)
            IN  IF severity = "high" /\ trend = "declining"
                THEN Recs[n].practice_type = "Foundational Review + Intensive Practice"
                ELSE IF severity = "medium" /\ trend = "declining"
                THEN Recs[n].practice_type = "Targeted Review + Extra Practice"
                ELSE IF trend = "improving" /\ severity # "low"
                THEN /\ Recs[n].practice_type = "Reinforcement + Challenge Problems"
                     /\ Recs[n].duration = "3-5 days, 20-30 min daily"
                     /\ Recs[n].steps.practice_problems <= 10
                ELSE Recs[n].practice_type = "Structured Review + Practice"

\* ---------------------------------------------------------------- C23
\* the findings whose key starts with none of concept, confidence, speed
Skipped == DOMAIN InGaps \ Yielding

\* C23: a finding of no known kind gives no recommendation: every returned
\* recommendation is built from a finding of a known kind or is the
\* maintenance recommendation, and there are as many as there are findings of
\* a known kind (up to 5).  When no finding is of a known kind the result is
\* exactly the maintenance recommendation, so the list is never empty.
C23_UnknownSkipped ==
    Generated =>
        /\ recommendations.status = "returned"
        /\ Len(Recs) >= 1
        /\ Yielding = {} => Maintenance /\ Recs[1] = _get_maintenance_recommendation
        /\ Yielding # {} =>
              /\ Len(Recs) = Min2(5, Cardinality(Yielding))
              /\ \A n \in DOMAIN Recs : \E i \in Yielding :
                     Recs[n] = _create_recommendation(InGaps[i].key, InGaps[i].value)

\* C23 witness: an analysis whose only finding is of an unknown kind, and the
\* maintenance recommendation returned
C23_Witness ==
    /\ Generated
    /\ Skipped # {} /\ Yielding = {}
    /\ Maintenance

\* ------------------------------------------------- analysis to recommendations
\* the recommendations built for the analysed frame
Recommended == analysis # NoCall /\ analysis.status = "returned" /\ recommendations # NoCall
\* the topics of the frame that got a concept finding: the key is theirs and
\* the finding counts their rows
FoundTopics ==
    {topic \in Topics :
        /\ HasKey(Gaps, ConceptKey(topic))
        /\ Get(Gaps, ConceptKey(topic)).description.topic = topic}
\* the recommendation built from the concept finding of a topic
RecOf(topic) == _recommend_concept_review(ConceptKey(topic), Get(Gaps, ConceptKey(topic)))
\* the topics whose lower-case name has an entry in the intervention library
LibraryTopics == {topic \in Topics : HasKey(intervention_library, Lower(topic))}

\* ---------------------------------------------------------------- C24
\* C24 as stated: for every topic that has an entry in the intervention
\* library, the two-word topic among them, the recommendation for a concept
\* gap that analyze_student found for the topic is among those returned and is
\* built from the entry: its key concepts, its practice-problem count and its
\* guide links, not 'core concepts', 10 problems and no links.
C24_LibraryUsed ==
    Recommended =>
        \A topic \in FoundTopics \cap LibraryTopics :
            LET entry == Get(intervention_library, Lower(topic)) IN
            \E n \in DOMAIN Recs :
                /\ Recs[n] = RecOf(topic)
                /\ Recs[n].steps.key_concepts = entry.key_concepts
                /\ Recs[n].steps.practice_problems = entry.practice_problems
                /\ Recs[n].resources # {}

\* ---------------------------------------------------------------- C25
\* the concept findings of the analysis
ConceptFindings == {Gaps[i].value : i \in {j \in DOMAIN Gaps : Gaps[j].key[1] = "concept_gap_"}}

\* C25: on a frame with Topic and Time_Taken, every concept finding has
\* severity high or medium (never low), gap_type Conceptual or Theoretical
\* (never Unknown), at least 3 affected questions, a confidence in (0.4, 1],
\* and a difficulty breakdown with at least one counted mistake whose
\* most_frequent label is easy, moderate or hard.
C25_ConceptFindingRanges ==
    (WellFormed /\ Returns) =>
        \A finding \in ConceptFindings :
            /\ finding.severity \in {"high", "medium"}
            /\ finding.gap_type \in {"Conceptual", "Theoretical"}
            /\ finding.affected_questions >= 3
            /\ RGt(finding.confidence, R(4, 10)) /\ RLe(finding.confidence, R(1, 1))
            /\ finding.difficulty_mistakes.most_frequent \in {"easy", "moderate", "hard"}
            /\ "total_mistakes" \in DOMAIN finding.difficulty_mistakes
            /\ finding.difficulty_mistakes.total_mistakes >= 1
            /\ finding.difficulty_mistakes.easy + finding.difficulty_mistakes.moderate
                   + finding.difficulty_mistakes.hard = finding.difficulty_mistakes.total_mistakes

\* C25 witness: a medium finding on five attempts of which two are right, with
\* mistakes of two difficulties
C25_Witness ==
    /\ WellFormed /\ Returns
    /\ \E finding \in ConceptFindings :
           /\ finding.severity = "medium" /\ finding.affected_questions = 5
           /\ REq(finding.confidence, R(6, 10))
           /\ finding.difficulty_mistakes.total_mistakes = 3
           /\ finding.difficulty_mistakes.moderate < 3

\* ---------------------------------------------------------------- C26
WeakSet == {weak_topics.value[i] : i \in DOMAIN weak_topics.value}

\* C26 as stated: for every frame, the topics for which analyze_student emits
\* a concept finding are the topics that identify_weak_topics returns with
\* threshold 0.6 on the same frame.
C26_SameTopics ==
    (Returns /\ weak_topics # NoCall /\ threshold = R(6, 10)) =>
        /\ weak_topics.status = "returned"
        /\ FoundTopics = WeakSet

\* ---------------------------------------------------------------- C27
\* the places of the concept findings in the gaps of the analysis
ConceptPlaces == {i \in DOMAIN Gaps : Gaps[i].key[1] = "concept_gap_"}

\* C27: in analyze_student followed by generate_recommendations no finding
\* carries a trend, and every concept recommendation is the stable one: its
\* title ends with (Stable), its description starts with 'Consistent
\* difficulty.' and its practice type is 'Structured Review + Practice'.
C27_AlwaysStable ==
    Recommended =>
        /\ \A i \in DOMAIN Gaps : "trend" \notin DOMAIN Gaps[i].value
        /\ \A i \in ConceptPlaces : \E n \in DOMAIN Recs :
               /\ Recs[n] = _recommend_concept_review(Gaps[i].key, Gaps[i].value)
               /\ Recs[n].title.trend = "Stable"
               /\ Recs[n].description.prefix = "Consistent difficulty. "
               /\ Recs[n].practice_type = "Structured Review + Practice"
        /\ \A n \in DOMAIN Recs :
               Recs[n].practice_type \notin {"Foundational Review + Intensive Practice",
                                             "Targeted Review + Extra Practice",
                                             "Reinforcement + Challenge Problems"}

\* C27 witness: a high finding of a topic and its concept recommendation,
\* built as for a stable trend
C27_Witness ==
    /\ Recommended
    /\ \E i \in ConceptPlaces : \E n \in DOMAIN Recs :
           /\ Gaps[i].value.severity = "high"
           /\ Recs[n] = _recommend_concept_review(Gaps[i].key, Gaps[i].value)
           /\ Recs[n].title.trend = "Stable"

\* ------------------------------------------------------ progress over time
TimedRows == {timed_df[i] : i \in DOMAIN timed_df}
\* the place of a row when the attempts are ordered by timestamp
TimeRank(r) == Cardinality({q \in TimedRows : q.Timestamp < r.Timestamp}) + 1
\* the accuracy of the attempts with places from..to
AccuracyOfPlaces(from, to) ==
    R(Cardinality({r \in TimedRows : TimeRank(r) \in from..to /\ r.Correct = 1}), to - from + 1)

\* ---------------------------------------------------------------- C28
HalfPoint == Len(timed_df) \div 2
Delta == RSub(AccuracyOfPlaces(HalfPoint + 1, Len(timed_df)), AccuracyOfPlaces(1, HalfPoint))

\* C28: get_student_progress_trend returns insufficient_data with improvement
\* 0 below 2 attempts; else, with the attempts ordered by timestamp, the
\* first floor(n/2) against the rest, it returns improving iff the accuracy
\* of the second half exceeds that of the first by more than 0.1, declining
\* iff the difference is below -0.1, and stable otherwise.
C28_Trend ==
    trend_info # NoCall =>
        IF Len(timed_df) < 2
        THEN /\ trend_info.value.trend = "insufficient_data"
             /\ trend_info.value.improvement.num = 0
        ELSE /\ REq(trend_info.value.improvement, Delta)
             /\ trend_info.value.trend = "improving" <=> RGt(Delta, R(1, 10))
             /\ trend_info.value.trend = "declining" <=> RLt(Delta, R(-1, 10))
             /\ trend_info.value.trend = "stable" <=> (RLe(Delta, R(1, 10)) /\ RGe(Delta, R(-1, 10)))
             /\ trend_info.value.trend \in {"improving", "declining", "stable"}

\* C28 witness: a file of seven attempts, newest first, that gets worse by
\* less than 0.1 (1/3 of the oldest three right, 1/4 of the newest four)
C28_Witness ==
    /\ trend_info # NoCall
    /\ Len(timed_df) = 7 /\ NewestFirst(timed_df)
    /\ trend_info.value.trend = "stable"
    /\ REq(Delta, R(-1, 12))

\* ---------------------------------------------------------------- C29
WindowSize == IF Len(timed_df) \div 3 > 3 THEN Len(timed_df) \div 3 ELSE 3
Windows == Len(timed_df) - WindowSize + 1
ExpectedVelocity ==
    LET d == RSub(AccuracyOfPlaces(Windows, Windows + WindowSize - 1), AccuracyOfPlaces(1, WindowSize))
    IN  R(d.num, d.den * (Windows - 1))

\* C29: calculate_learning_velocity returns 0 below 3 attempts or below 2
\* windows; else, with w = max(3, floor(n/3)) and the n - w + 1 windows of w
\* consecutive attempts in the order of the timestamps, it returns (accuracy
\* of the last window - accuracy of the first) / (windows - 1), which lies
\* in [-1, 1].
C29_Velocity ==
    velocity # NoCall =>
        IF Len(timed_df) < 3 \/ Windows < 2
        THEN velocity.value.num = 0
        ELSE /\ REq(velocity.value, ExpectedVelocity)
             /\ RLe(velocity.value, R(1, 1)) /\ RGe(velocity.value, R(-1, 1))

\* C29 witness: twelve attempts, newest first, in windows of four, the oldest
\* four wrong and the newest four right: velocity 1/8
C29_Witness ==
    /\ velocity # NoCall
    /\ Len(timed_df) = 12 /\ NewestFirst(timed_df)
    /\ WindowSize = 4 /\ Windows = 9
    /\ REq(velocity.value, R(1, 8))

\* ---------------------------------------------------------------- C30
\* the stored analyses were computed from the student_data now loaded
FromCurrentData ==
    /\ session_state.analysis_results # None =>
           \E sid \in StudentIds :
               /\ Rows(StudentFrame(session_state.student_data, sid)) > 0
               /\ session_state.analysis_results =
                      analyze_student(StudentFrame(session_state.student_data, sid),
                                      FleetColumns, <<FleetTopic>>).value
    /\ session_state.overall_analysis_results # None =>
           /\ session_state.overall_analysis_results.total_attempts = Rows(session_state.student_data)
           /\ session_state.overall_analysis_results.total_correct = CountCorrect(session_state.student_data, 1)
           /\ session_state.overall_analysis_results =
                  _perform_overall_analysis(session_state.student_data,
                                            UniqueIds(session_state.student_data))

\* what a step of the session may do to the stored state
StepRules ==
    /\ last_event' = "load" =>
           /\ session_state'.data_loaded
           /\ session_state'.analysis_results = None
           /\ session_state'.overall_analysis_results = None
    /\ session_state'.student_data # session_state.student_data => last_event' = "load"
    /\ last_event' = "upload failed" => session_state' = session_state
    /\ (/\ session_state'.overall_analysis_results # None
        /\ session_state'.overall_analysis_results # session_state.overall_analysis_results) =>
           /\ session_state.data_loaded
           /\ Rows(session_state.student_data) > 0
           /\ session_state.overall_analysis_results = None
           /\ last_event' = "overall analysis"

\* C30: in every state of a dashboard session a stored single-student or
\* overall analysis that is not None was computed from the student_data now
\* loaded; every successful load resets both to None, a failed upload changes
\* nothing of the session state, and the overall analysis is computed only
\* when data is loaded, not empty and no overall analysis is stored.
C30_AnalysesFresh == [](FromCurrentData) /\ [][StepRules]_vars

\* C30 witness: a dataset of MaxDashRows rows of two students at high risk,
\* its overall analysis stored and a student of it just analysed
C30_Witness ==
    /\ session_state.analysis_results # None
    /\ session_state.overall_analysis_results # None
    /\ Rows(session_state.student_data) = MaxDashRows
    /\ session_state.overall_analysis_results.high_risk_students = 2
    /\ last_event = "analyze"
====
